---- MODULE Spec2Model ----
(***************************************************************************)
(* go-scpi-parser: the error queue, the line parser (Parse), the input     *)
(* framer (Input), the parameter extractors and result formatters, and the *)
(* pieces of the lexer and pattern matcher they use.  Bytes are            *)
(* one-character strings, byte slices are sequences.                       *)
(***************************************************************************)
EXTENDS Integers, Sequences, FiniteSets, TLC

(***************************************************************************)
(* Bounds of the exploration                                               *)
(***************************************************************************)
\* number of ErrorPush calls made directly by the caller
MaxPush == 13

\* number of program message units in one data slice handed to Parse
MaxUnits == 3

\* number of program message units in the byte stream sent through Input
MaxUnitsIn == 2

\* bufferSize handed to NewContext
BufferSize == 8

\* Input([]byte{}) calls made by the controller in one run
MaxFlush == 2

\* longest keyword handed to a direct call of matchPattern
MaxValueLen == 4

\* most nodes of a header handed to a direct call of matchCommand
MaxNodes == 4

\* largest count handed to a direct call of CommandNumbers
MaxCount == 3

\* Parameter and extractor calls made within one handler invocation
MaxCalls == 2

\* handler invocations that the direct calls are made in
MaxDispatch == 2

\* how far the integers sent to the int32 extractor lie from the values whose
\* decimal text is a prefix of that of the largest int32
MaxOffset == 3

\* longest byte sequence written as an arbitrary block
MaxBlockLen == 3

(***************************************************************************)
(* Program constants                                                       *)
(***************************************************************************)
\* make([]*Error, 0, 10)
QueueCap == 10

ResOK == 1

ResErr == -1

\* the nil *Error returned by ErrorPop on an empty queue
Nil == 0

(***************************************************************************)
(* Sequence helpers                                                        *)
(***************************************************************************)
\* a value computed once and used under a name
With(e, Op(_)) ==
  Op(e)

\* Go's s[lo:hi] on a 0-based slice
Slice(s, lo, hi) ==
  SubSeq(s, lo + 1, hi)

Last(s) ==
  s[Len(s)]

IsPrefix(p, s) ==
  /\ Len(p) <= Len(s)
  /\ SubSeq(s, 1, Len(p)) = p

LastN(s, n) ==
  IF Len(s) <= n THEN s ELSE SubSeq(s, Len(s) - n + 1, Len(s))

RECURSIVE Concat(_)
Concat(ss) ==
  IF Len(ss) = 0 THEN <<>> ELSE Head(ss) \o Concat(Tail(ss))

(***************************************************************************)
(* State                                                                   *)
(***************************************************************************)
VARIABLES
  c,          \* the Context, with what its Interface callbacks have observed
  growth,     \* how this build's append sizes a reallocated array
  arch,       \* the build's target, which fixes out-of-range float conversions
  wire,       \* bytes the controller has still to send
  sent,       \* bytes handed to Input so far
  lastRet,    \* outcome of the last Input or Parse call
  pushed,     \* number of direct ErrorPush calls; the k-th pushes Code k
  batch,      \* errors pushed since a push last found the queue empty
  drain,      \* results of the ErrorPop calls made since the last push
  clean,      \* no ErrorPop happened between the pushes of batch
  fresh,      \* no ErrorPop happened before batch began
  everPopped, \* some ErrorPop call has been made
  callPattern, \* the pattern handed to a direct call of the matcher or IsCmd
  callHeader,  \* the other arguments of the direct call
  callRet      \* what the direct calls returned, in order (<<>> before any)

vars ==
  <<c, growth, arch, wire, sent, lastRet, pushed, batch, drain, clean,
    fresh, everPopped, callPattern, callHeader, callRet>>

\* the variables of the direct calls
matchVars ==
  <<callPattern, callHeader, callRet>>

(***************************************************************************)
(* Error queue (parser.go)                                                 *)
(***************************************************************************)
\* NewContext: bufferPos 0, errorQueue make([]*Error, 0, 10), firstOutput true.
\* inputBuffer holds the bytes below bufferPos.  out, flushes and notified are
\* what the Write, Flush and OnError callbacks of the Interface have received;
\* calls, lookups and parses log the handler invocations, the command lookups
\* and the Parse executions; numbers is the variable in which a handler keeps
\* what CommandNumbers returned and got the one in which it keeps what its
\* extractor returned; inOverflow tells that Input has pushed -350 for the line
\* whose bytes are arriving and has not met its "\n" since; panicked records a
\* run-time panic.
NewContext ==
  [ errorQueue    |-> <<>>,
    qcap          |-> QueueCap,
    cmdError      |-> FALSE,
    currentCmd    |-> 0,
    currentHeader |-> <<>>,
    currentParams |-> <<>>,
    paramsPos     |-> 0,
    inputCount    |-> 0,
    outputCount   |-> 0,
    firstOutput   |-> TRUE,
    inputBuffer   |-> <<>>,
    bufferPos     |-> 0,
    out           |-> <<>>,
    flushes       |-> 0,
    notified      |-> <<>>,
    calls         |-> <<>>,
    lookups       |-> <<>>,
    parses        |-> <<>>,
    numbers       |-> <<>>,
    got           |-> <<>>,
    inOverflow    |-> FALSE,
    panicked      |-> FALSE ]

\* &Error{Code: code, Info: info}
Error(code, info) ==
  [Code |-> code, Info |-> info]

\* the Code fields of a sequence of errors
Codes(errs) ==
  [i \in DOMAIN errs |-> errs[i].Code]

InvalidCommand ==
  <<"I","n","v","a","l","i","d"," ","c","o","m","m","a","n","d">>

UndefinedHeader ==
  <<"U","n","d","e","f","i","n","e","d"," ","h","e","a","d","e","r",":"," ">>

ExecutionError ==
  <<"E","x","e","c","u","t","i","o","n"," ","e","r","r","o","r">>

InputBufferOverflow ==
  <<"I","n","p","u","t"," ","b","u","f","f","e","r"," ","o","v","e","r","f","l","o","w">>

MissingParameter ==
  <<"M","i","s","s","i","n","g"," ","p","a","r","a","m","e","t","e","r">>

InvalidSeparator ==
  <<"I","n","v","a","l","i","d"," ","s","e","p","a","r","a","t","o","r">>

DataTypeError ==
  <<"D","a","t","a"," ","t","y","p","e"," ","e","r","r","o","r">>

\* Capacity of the array that append allocates when the slice is full.  The
\* language fixes only that it holds the new length; the gc runtime doubles
\* small slices.
appendCap(oldCap, newLen) ==
  IF growth = "exact" \/ newLen > 2 * oldCap THEN newLen ELSE 2 * oldCap

\* iface.OnError(err)
OnError(w, err) ==
  [w EXCEPT !.notified = Append(@, err)]

\* c.errorQueue[1:] of an empty slice is a slice-bounds panic
ErrorPush(w, err) ==
  IF w.panicked THEN w
  ELSE IF Len(w.errorQueue) < w.qcap
  THEN OnError([w EXCEPT !.errorQueue = Append(@, err),
                         !.cmdError = TRUE], err)
  ELSE IF Len(w.errorQueue) = 0
  THEN [w EXCEPT !.panicked = TRUE]
  ELSE LET rest == Tail(w.errorQueue)
           restCap == w.qcap - 1
           newCap == IF Len(rest) + 1 <= restCap
                     THEN restCap
                     ELSE appendCap(restCap, Len(rest) + 1)
       IN  OnError([w EXCEPT !.errorQueue = Append(rest, err),
                             !.qcap = newCap,
                             !.cmdError = TRUE], err)

\* the *Error that ErrorPop returns
ErrorPopResult(w) ==
  IF Len(w.errorQueue) = 0 THEN Nil ELSE w.errorQueue[1]

\* the Code of the popped error, Nil for none
ErrorPopCode(w) ==
  IF Len(w.errorQueue) = 0 THEN Nil ELSE w.errorQueue[1].Code

\* the Context after ErrorPop: errorQueue[1:] gives up one slot of capacity
ErrorPop(w) ==
  IF Len(w.errorQueue) = 0
  THEN w
  ELSE [w EXCEPT !.errorQueue = Tail(@), !.qcap = @ - 1]

(***************************************************************************)
(* Bytes and the lexer (lexer.go)                                          *)
(***************************************************************************)
LowerLetters ==
  <<"a","b","c","d","e","f","g","h","i","j","k","l","m",
    "n","o","p","q","r","s","t","u","v","w","x","y","z">>

UpperLetters ==
  <<"A","B","C","D","E","F","G","H","I","J","K","L","M",
    "N","O","P","Q","R","S","T","U","V","W","X","Y","Z">>

Digits ==
  <<"0","1","2","3","4","5","6","7","8","9">>

Range(s) ==
  {s[i] : i \in DOMAIN s}

isLower(ch) ==
  ch \in Range(LowerLetters)

isAlpha(ch) ==
  ch \in Range(LowerLetters) \cup Range(UpperLetters)

isDigit(ch) ==
  ch \in Range(Digits)

isWhitespace(ch) ==
  ch \in {" ", "\t"}

\* strings.ToUpper on one byte
ToUpperByte(ch) ==
  IF isLower(ch)
  THEN UpperLetters[CHOOSE i \in DOMAIN LowerLetters : LowerLetters[i] = ch]
  ELSE ch

ToUpper(s) ==
  [i \in DOMAIN s |-> ToUpperByte(s[i])]

\* lexState.isEOS with the state held as (buffer, pos); len is Len(buf)
isEOS(buf, pos) ==
  pos >= Len(buf)

\* lexState.peek: the byte at pos, 0 at end of stream
peek(buf, pos) ==
  IF isEOS(buf, pos) THEN "NUL" ELSE buf[pos + 1]

\* lexState.advance
advance(buf, pos, n) ==
  IF pos + n > Len(buf) THEN Len(buf) ELSE pos + n

\* for !isEOS() && peek() in set { advance(1) }
RECURSIVE SkipWhile(_, _, _)
SkipWhile(buf, pos, set) ==
  IF ~isEOS(buf, pos) /\ peek(buf, pos) \in set
  THEN SkipWhile(buf, advance(buf, pos, 1), set)
  ELSE pos

AlphaBytes ==
  Range(LowerLetters) \cup Range(UpperLetters)

AlnumBytes ==
  AlphaBytes \cup Range(Digits)

\* lexWhitespace: the position after the blanks and tabs
lexWhitespace(buf, pos) ==
  SkipWhile(buf, pos, {" ", "\t"})

\* lexNewLine: the position after "\n", "\r" or "\r\n"; pos if none
lexNewLine(buf, pos) ==
  IF peek(buf, pos) = "\n" THEN advance(buf, pos, 1)
  ELSE IF peek(buf, pos) = "\r"
  THEN LET p == advance(buf, pos, 1)
       IN  IF ~isEOS(buf, p) /\ peek(buf, p) = "\n"
           THEN advance(buf, p, 1) ELSE p
  ELSE pos

\* lexSemicolon: token type and the position after it
lexSemicolon(buf, pos) ==
  IF peek(buf, pos) = ";"
  THEN [type |-> "TokenSemicolon", pos |-> advance(buf, pos, 1)]
  ELSE [type |-> "TokenUnknown", pos |-> pos]

\* the node loop of lexProgramHeader
RECURSIVE HeaderNodes(_, _)
HeaderNodes(buf, pos) ==
  IF ~isAlpha(peek(buf, pos))
  THEN pos
  ELSE With(SkipWhile(buf, pos, AlnumBytes), LAMBDA p1 :
       With(IF ~isEOS(buf, p1) /\ peek(buf, p1) = "#"
            THEN advance(buf, p1, 1) ELSE p1, LAMBDA p2 :
         IF ~isEOS(buf, p2) /\ peek(buf, p2) = ":"
         THEN HeaderNodes(buf, advance(buf, p2, 1))
         ELSE p2))

\* the optional '?' that ends a header
lexQuery(buf, p1) ==
  IF ~isEOS(buf, p1) /\ peek(buf, p1) = "?" THEN advance(buf, p1, 1) ELSE p1

\* the header token made of buf[start..p2), unknown when it has fewer than
\* least bytes
headerToken(type, buf, start, p2, least) ==
  IF p2 - start >= least
  THEN [type |-> type, data |-> Slice(buf, start, p2), length |-> p2 - start,
        pos |-> p2]
  ELSE [type |-> "TokenUnknown", data |-> <<>>, length |-> 0, pos |-> p2]

\* lexProgramHeader: token type, token bytes, returned length, and the
\* position the lexer is left at (not restored when a '*' header fails)
lexProgramHeader(buf, start) ==
  IF peek(buf, start) = "*"
  THEN headerToken("TokenCommonProgramHeader", buf, start,
                   lexQuery(buf, SkipWhile(buf, advance(buf, start, 1), AlphaBytes)),
                   2)
  ELSE headerToken("TokenCompoundProgramHeader", buf, start,
                   lexQuery(buf, HeaderNodes(buf,
                     IF peek(buf, start) = ":" THEN advance(buf, start, 1)
                     ELSE start)),
                   1)

HexBytes ==
  Range(Digits) \cup {"a","b","c","d","e","f","A","B","C","D","E","F"}

\* c - '0'
DigitVal(ch) ==
  (CHOOSE i \in DOMAIN Digits : Digits[i] = ch) - 1

NoToken(pos) ==
  [type |-> "TokenUnknown", data |-> <<>>, length |-> 0, pos |-> pos, tokPos |-> 0]

Token(type, buf, start, pos) ==
  [type |-> type, data |-> Slice(buf, start, pos), length |-> pos - start,
   pos |-> pos, tokPos |-> start]

lexComma(buf, pos) ==
  IF peek(buf, pos) = ","
  THEN Token("TokenComma", buf, pos, advance(buf, pos, 1))
  ELSE NoToken(pos)

\* the exponent part of lexDecimalNumeric from p3: the position after it
lexExponent(buf, p3) ==
  IF ~isEOS(buf, p3) /\ peek(buf, p3) \in {"e", "E"}
  THEN With(advance(buf, p3, 1), LAMBDA p4 :
         SkipWhile(buf,
                   IF ~isEOS(buf, p4) /\ peek(buf, p4) \in {"+", "-"}
                   THEN advance(buf, p4, 1) ELSE p4,
                   Range(Digits)))
  ELSE p3

lexDecimalNumeric(buf, start) ==
  With(IF peek(buf, start) \in {"+", "-"} THEN advance(buf, start, 1) ELSE start,
       LAMBDA p1 :
  With(SkipWhile(buf, p1, Range(Digits)), LAMBDA p2 :
  With(~isEOS(buf, p2) /\ peek(buf, p2) = ".", LAMBDA dot :
  With(IF dot THEN SkipWhile(buf, advance(buf, p2, 1), Range(Digits)) ELSE p2,
       LAMBDA p3 :
  With(lexExponent(buf, p3), LAMBDA p6 :
    IF (p2 > p1 \/ (dot /\ p3 > p2 + 1)) /\ p6 > start
    THEN Token("TokenDecimalNumeric", buf, start, p6)
    ELSE NoToken(start))))))

\* the digit bytes of a base letter
baseDigits(base) ==
  IF base \in {"H", "h"} THEN HexBytes
  ELSE IF base \in {"Q", "q"} THEN {"0","1","2","3","4","5","6","7"}
  ELSE {"0", "1"}

baseType(base) ==
  IF base \in {"H", "h"} THEN "TokenHexNum"
  ELSE IF base \in {"Q", "q"} THEN "TokenOctNum"
  ELSE "TokenBinNum"

lexNondecimalNumeric(buf, start) ==
  IF peek(buf, start) # "#" THEN NoToken(start)
  ELSE With(advance(buf, start, 1), LAMBDA p1 :
       With(peek(buf, p1), LAMBDA base :
         IF isEOS(buf, p1) THEN NoToken(start)
         ELSE IF base \in {"H", "h", "Q", "q", "B", "b"}
         THEN With(SkipWhile(buf, advance(buf, p1, 1), baseDigits(base)),
                   LAMBDA p2 :
                IF p2 > start + 2 THEN Token(baseType(base), buf, start, p2)
                ELSE NoToken(start))
         ELSE NoToken(start)))

lexCharacterProgramData(buf, start) ==
  IF ~isAlpha(peek(buf, start)) THEN NoToken(start)
  ELSE Token("TokenProgramMnemonic", buf, start,
             SkipWhile(buf, start, AlnumBytes \cup {"_"}))

lexSuffixProgramData(buf, start) ==
  IF ~isAlpha(peek(buf, start)) THEN NoToken(start)
  ELSE Token("TokenSuffixProgramData", buf, start, SkipWhile(buf, start, AlphaBytes))

\* the scanning loop of lexStringProgramData: position after the closing
\* quote, or -1 when the string is unterminated
RECURSIVE StringEnd(_, _, _)
StringEnd(buf, pos, quote) ==
  IF isEOS(buf, pos) THEN -1
  ELSE With(advance(buf, pos, 1), LAMBDA p1 :
         IF peek(buf, pos) = quote
         THEN IF ~isEOS(buf, p1) /\ peek(buf, p1) = quote
              THEN StringEnd(buf, advance(buf, p1, 1), quote)
              ELSE p1
         ELSE StringEnd(buf, p1, quote))

lexStringProgramData(buf, start) ==
  With(peek(buf, start), LAMBDA quote :
    IF quote # "\"" /\ quote # "'" THEN NoToken(start)
    ELSE With(StringEnd(buf, advance(buf, start, 1), quote), LAMBDA e :
           IF e < 0 THEN NoToken(start)
           ELSE Token(IF quote = "'" THEN "TokenSingleQuoteData"
                      ELSE "TokenDoubleQuoteData", buf, start, e)))

\* the length loop of lexArbitraryBlock: <<length, position>>
RECURSIVE BlockLength(_, _, _, _)
BlockLength(buf, pos, i, length) ==
  IF i > 0 /\ ~isEOS(buf, pos) /\ isDigit(peek(buf, pos))
  THEN BlockLength(buf, advance(buf, pos, 1), i - 1,
                   length * 10 + DigitVal(peek(buf, pos)))
  ELSE <<length, pos>>

RECURSIVE SkipUntil(_, _, _)
SkipUntil(buf, pos, set) ==
  IF ~isEOS(buf, pos) /\ peek(buf, pos) \notin set
  THEN SkipUntil(buf, advance(buf, pos, 1), set)
  ELSE pos

lexArbitraryBlock(buf, start) ==
  IF peek(buf, start) # "#" THEN NoToken(start)
  ELSE With(advance(buf, start, 1), LAMBDA p1 :
         IF isEOS(buf, p1) \/ ~isDigit(peek(buf, p1)) THEN NoToken(start)
         ELSE With(DigitVal(peek(buf, p1)), LAMBDA lengthDigits :
              With(advance(buf, p1, 1), LAMBDA p2 :
                IF lengthDigits = 0
                THEN Token("TokenArbitraryBlock", buf, start,
                           SkipUntil(buf, p2, {"\n", "\r"}))
                ELSE With(BlockLength(buf, p2, lengthDigits, 0), LAMBDA lp :
                       IF lp[2] + lp[1] <= Len(buf)
                       THEN Token("TokenArbitraryBlock", buf, start,
                                  advance(buf, lp[2], lp[1]))
                       ELSE NoToken(start)))))

\* the loop of lexProgramExpression: position after the matching ')', or -1
RECURSIVE ExpressionEnd(_, _, _)
ExpressionEnd(buf, pos, depth) ==
  IF isEOS(buf, pos) THEN -1
  ELSE With(peek(buf, pos), LAMBDA ch :
       With(advance(buf, pos, 1), LAMBDA p1 :
         IF ch = "(" THEN ExpressionEnd(buf, p1, depth + 1)
         ELSE IF ch = ")"
         THEN IF depth - 1 = 0 THEN p1 ELSE ExpressionEnd(buf, p1, depth - 1)
         ELSE ExpressionEnd(buf, p1, depth)))

lexProgramExpression(buf, start) ==
  IF peek(buf, start) # "(" THEN NoToken(start)
  ELSE With(ExpressionEnd(buf, start, 0), LAMBDA e :
         IF e < 0 THEN NoToken(start)
         ELSE Token("TokenProgramExpression", buf, start, e))

(***************************************************************************)
(* strings package helpers                                                 *)
(***************************************************************************)
\* strings.Index for a one-byte needle: 0-based index or -1
Index(s, ch) ==
  IF \E i \in DOMAIN s : s[i] = ch
  THEN (CHOOSE i \in DOMAIN s : s[i] = ch /\ \A j \in 1..(i - 1) : s[j] # ch) - 1
  ELSE -1

\* strings.LastIndex for a one-byte needle
LastIndex(s, ch) ==
  IF \E i \in DOMAIN s : s[i] = ch
  THEN (CHOOSE i \in DOMAIN s : s[i] = ch /\ \A j \in (i + 1)..Len(s) : s[j] # ch) - 1
  ELSE -1

Contains(s, ch) ==
  \E i \in DOMAIN s : s[i] = ch

\* strings.TrimSuffix(s, "?")
TrimSuffixQ(s) ==
  IF Len(s) > 0 /\ s[Len(s)] = "?" THEN SubSeq(s, 1, Len(s) - 1) ELSE s

\* strings.ReplaceAll(s, ch, "")
RECURSIVE RemoveAll(_, _)
RemoveAll(s, ch) ==
  IF Len(s) = 0 THEN <<>>
  ELSE IF Head(s) = ch THEN RemoveAll(Tail(s), ch)
  ELSE <<Head(s)>> \o RemoveAll(Tail(s), ch)

\* strings.TrimRight(s, "0123456789")
RECURSIVE TrimRightDigits(_)
TrimRightDigits(s) ==
  IF Len(s) > 0 /\ isDigit(s[Len(s)])
  THEN TrimRightDigits(SubSeq(s, 1, Len(s) - 1))
  ELSE s

\* strings.Split(s, sep) for a one-byte separator
RECURSIVE Split(_, _)
Split(s, sep) ==
  With(Index(s, sep), LAMBDA i :
    IF i < 0 THEN <<s>>
    ELSE <<Slice(s, 0, i)>> \o Split(Slice(s, i + 1, Len(s)), sep))

(***************************************************************************)
(* Pattern matcher (parser.go)                                             *)
(***************************************************************************)
\* position of the first lowercase letter of pattern, or its length
shortLen(pattern) ==
  IF \E i \in DOMAIN pattern : isLower(pattern[i])
  THEN (CHOOSE i \in DOMAIN pattern :
          isLower(pattern[i]) /\ \A j \in 1..(i - 1) : ~isLower(pattern[j])) - 1
  ELSE Len(pattern)

\* matchPattern that accepts every length from the short form up
matchPatternPartial(pattern, value0) ==
  With(ToUpper(value0), LAMBDA value :
    /\ Len(value) >= shortLen(pattern)
    /\ Len(value) <= Len(pattern)
    /\ Slice(ToUpper(pattern), 0, Len(value)) = value)

matchPattern(pattern, value0) ==
  With(ToUpper(value0), LAMBDA value :
  With(ToUpper(pattern), LAMBDA fullUpper :
  With(shortLen(pattern), LAMBDA short :
    IF Len(value) = short
    THEN Slice(fullUpper, 0, short) = value
    ELSE IF Len(value) = Len(fullUpper)
    THEN fullUpper = value
    ELSE FALSE)))

\* the parts of a pattern or header without the empty part a leading ':' makes
colonParts(s) ==
  With(Split(s, ":"), LAMBDA parts :
    IF Len(parts) > 0 /\ parts[1] = <<>> THEN Tail(parts) ELSE parts)

matchCommandParts(pattern, header) ==
  With(colonParts(pattern), LAMBDA patternParts :
  With(colonParts(header), LAMBDA headerParts :
    /\ Len(patternParts) = Len(headerParts)
    /\ \A i \in DOMAIN headerParts :
         IF Contains(patternParts[i], "#")
         THEN matchPattern(RemoveAll(patternParts[i], "#"),
                           TrimRightDigits(headerParts[i]))
         ELSE matchPattern(patternParts[i], headerParts[i])))

\* the pattern with its optional part "[...]" cut out
withoutOptional(pattern) ==
  Slice(pattern, 0, Index(pattern, "["))
    \o Slice(pattern, Index(pattern, "]") + 1, Len(pattern))

matchCommand(pattern0, header0) ==
  With(TrimSuffixQ(pattern0), LAMBDA pattern :
  With(TrimSuffixQ(header0), LAMBDA header :
    IF Contains(pattern, "[") /\ Contains(pattern, "]")
    THEN \/ matchCommandParts(withoutOptional(pattern), header)
         \/ matchCommandParts(RemoveAll(RemoveAll(pattern, "["), "]"), header)
    ELSE matchCommandParts(pattern, header)))

\* composeCompoundCommand: the header looked up for current after prev
composeCompoundCommand(prev, current) ==
  IF current = <<>> \/ prev = <<>> THEN current
  ELSE IF current[1] = "*" \/ current[1] = ":" THEN current
  ELSE IF prev[1] = "*" THEN current
  ELSE IF LastIndex(prev, ":") < 0 THEN current
  ELSE Slice(prev, 0, LastIndex(prev, ":") + 1) \o current

(***************************************************************************)
(* Result formatter (parser.go)                                            *)
(***************************************************************************)
\* iface.Write(data)
writeData(w, data) ==
  [w EXCEPT !.out = @ \o data]

\* writeNewLine: "\n" to the sink, then iface.Flush()
writeNewLine(w) ==
  [writeData(w, <<"\n">>) EXCEPT !.flushes = @ + 1]

writeDelimiter(w) ==
  IF w.outputCount > 0 THEN writeData(w, <<",">>) ELSE w

\* fmt.Sprintf("%d", value)
RECURSIVE NatToDec(_)
NatToDec(n) ==
  IF n < 10 THEN <<Digits[n + 1]>>
  ELSE NatToDec(n \div 10) \o <<Digits[(n % 10) + 1]>>

\* the digits of -n for n < 0, without negating n
RECURSIVE NegToDec(_)
NegToDec(n) ==
  LET d == (10 - (n % 10)) % 10
      rest == (n + d) \div 10
  IN  IF rest = 0 THEN <<Digits[d + 1]>>
      ELSE NegToDec(rest) \o <<Digits[d + 1]>>

IntToDec(v) ==
  IF v < 0 THEN <<"-">> \o NegToDec(v) ELSE NatToDec(v)

ResultInt32(w, value) ==
  [writeData(writeDelimiter(w), IntToDec(value))
     EXCEPT !.outputCount = @ + 1, !.firstOutput = FALSE]

\* strings.ReplaceAll(text, "\"", "\"\"")
RECURSIVE DoubleQuotes(_)
DoubleQuotes(text) ==
  IF Len(text) = 0 THEN <<>>
  ELSE IF Head(text) = "\"" THEN <<"\"", "\"">> \o DoubleQuotes(Tail(text))
  ELSE <<Head(text)>> \o DoubleQuotes(Tail(text))

ResultText(w, text) ==
  [writeData(writeDelimiter(w), <<"\"">> \o DoubleQuotes(text) \o <<"\"">>)
     EXCEPT !.outputCount = @ + 1, !.firstOutput = FALSE]

\* ResultBool: 1 or 0
ResultBool(w, value) ==
  IF value THEN ResultInt32(w, 1) ELSE ResultInt32(w, 0)

\* ResultArbitraryBlock: "#", the number of digits of the length, the length
\* and the bytes
ResultArbitraryBlock(w, data) ==
  [writeData(writeData(writeDelimiter(w),
                       <<"#">> \o NatToDec(Len(NatToDec(Len(data))))
                               \o NatToDec(Len(data))),
             data)
     EXCEPT !.outputCount = @ + 1, !.firstOutput = FALSE]

(***************************************************************************)
(* Parameter API (params.go)                                               *)
(***************************************************************************)
\* a decimal token de together with the suffix that follows it, if any
withSuffix(buf, de) ==
  With(lexSuffixProgramData(buf, lexWhitespace(buf, de.pos)), LAMBDA sx :
    IF sx.length > 0
    THEN Token("TokenDecimalNumericWithSuffix", buf, de.tokPos, sx.pos)
    ELSE de)

\* the first of the token classes tried after the decimal one
parseOtherData(buf, pos) ==
  With(lexStringProgramData(buf, pos), LAMBDA st :
    IF st.length > 0 THEN st
    ELSE With(lexArbitraryBlock(buf, pos), LAMBDA ab :
      IF ab.length > 0 THEN ab
      ELSE With(lexProgramExpression(buf, pos), LAMBDA pe :
        IF pe.length > 0 THEN pe ELSE NoToken(pos))))

\* parseProgramData: the first token class that matches at pos
parseProgramData(buf, pos) ==
  With(lexNondecimalNumeric(buf, pos), LAMBDA nd :
    IF nd.length > 0 THEN nd
    ELSE With(lexCharacterProgramData(buf, pos), LAMBDA ch :
      IF ch.length > 0 THEN ch
      ELSE With(lexDecimalNumeric(buf, pos), LAMBDA de :
        IF de.length > 0 THEN withSuffix(buf, de)
        ELSE parseOtherData(buf, pos))))

\* Parameter that leaves the cursor where it was
ParameterNoAdvance(w, mandatory) ==
  With(w.currentParams, LAMBDA buf :
  With(lexWhitespace(buf, w.paramsPos), LAMBDA p1 :
    IF isEOS(buf, p1)
    THEN IF mandatory
         THEN [w |-> ErrorPush(w, Error(-109, MissingParameter)),
               tok |-> NoToken(p1), err |-> TRUE]
         ELSE [w |-> w, tok |-> NoToken(p1), err |-> FALSE]
    ELSE IF w.inputCount > 0 /\ lexComma(buf, p1).type # "TokenComma"
    THEN [w |-> ErrorPush(w, Error(-104, InvalidSeparator)),
          tok |-> NoToken(p1), err |-> TRUE]
    ELSE With(parseProgramData(buf,
                IF w.inputCount > 0
                THEN lexWhitespace(buf, lexComma(buf, p1).pos)
                ELSE p1), LAMBDA param :
           [w |-> [w EXCEPT !.inputCount = @ + 1],
            tok |-> param, err |-> FALSE])))

\* Parameter that asks for no comma
ParameterNoComma(w, mandatory) ==
  With(w.currentParams, LAMBDA buf :
  With(lexWhitespace(buf, w.paramsPos), LAMBDA p1 :
    IF isEOS(buf, p1)
    THEN IF mandatory
         THEN [w |-> ErrorPush(w, Error(-109, MissingParameter)),
               tok |-> NoToken(p1), err |-> TRUE]
         ELSE [w |-> w, tok |-> NoToken(p1), err |-> FALSE]
    ELSE With(parseProgramData(buf, p1), LAMBDA param :
           [w |-> [w EXCEPT !.inputCount = @ + 1, !.paramsPos = param.pos],
            tok |-> param, err |-> FALSE])))

\* Parameter that counts a call at the end of the span as a parameter
ParameterCountsMissing(w, mandatory) ==
  With(w.currentParams, LAMBDA buf :
  With(lexWhitespace(buf, w.paramsPos), LAMBDA p1 :
    IF isEOS(buf, p1)
    THEN IF mandatory
         THEN [w |-> ErrorPush([w EXCEPT !.inputCount = @ + 1],
                               Error(-109, MissingParameter)),
               tok |-> NoToken(p1), err |-> TRUE]
         ELSE [w |-> [w EXCEPT !.inputCount = @ + 1],
               tok |-> NoToken(p1), err |-> FALSE]
    ELSE IF w.inputCount > 0 /\ lexComma(buf, p1).type # "TokenComma"
    THEN [w |-> ErrorPush(w, Error(-104, InvalidSeparator)),
          tok |-> NoToken(p1), err |-> TRUE]
    ELSE With(parseProgramData(buf,
                IF w.inputCount > 0
                THEN lexWhitespace(buf, lexComma(buf, p1).pos)
                ELSE p1), LAMBDA param :
           [w |-> [w EXCEPT !.inputCount = @ + 1, !.paramsPos = param.pos],
            tok |-> param, err |-> FALSE])))

\* Parameter(mandatory): the context, the token and whether an error is
\* returned
Parameter(w, mandatory) ==
  With(w.currentParams, LAMBDA buf :
  With(lexWhitespace(buf, w.paramsPos), LAMBDA p1 :
    IF isEOS(buf, p1)
    THEN IF mandatory
         THEN [w |-> ErrorPush(w, Error(-109, MissingParameter)),
               tok |-> NoToken(p1), err |-> TRUE]
         ELSE [w |-> w, tok |-> NoToken(p1), err |-> FALSE]
    ELSE IF w.inputCount > 0 /\ lexComma(buf, p1).type # "TokenComma"
    THEN [w |-> ErrorPush(w, Error(-104, InvalidSeparator)),
          tok |-> NoToken(p1), err |-> TRUE]
    ELSE With(parseProgramData(buf,
                IF w.inputCount > 0
                THEN lexWhitespace(buf, lexComma(buf, p1).pos)
                ELSE p1), LAMBDA param :
           [w |-> [w EXCEPT !.inputCount = @ + 1, !.paramsPos = param.pos],
            tok |-> param, err |-> FALSE])))

\* the extractors and the value each returns when there is no parameter
Extractors ==
  {"ParamInt32", "ParamInt64", "ParamFloat", "ParamDouble", "ParamString",
   "ParamBool", "ParamArbitraryBlock", "ParamChannelList", "ParamChoice"}

defaultOf(kind) ==
  IF kind = "ParamString" THEN <<>>
  ELSE IF kind = "ParamBool" THEN <<FALSE>>
  ELSE IF kind \in {"ParamArbitraryBlock", "ParamChannelList"} THEN <<Nil>>
  ELSE <<0>>

\* the lines every extractor begins with: Parameter(mandatory), then the
\* default value with Parameter's error, or with no error for TokenUnknown.
\* tok is the parameter that the extractor goes on to convert otherwise.
extractorHead(w, kind, mandatory) ==
  With(Parameter(w, mandatory), LAMBDA r :
    [w |-> r.w, val |-> defaultOf(kind), err |-> r.err, tok |-> r.tok])

(***************************************************************************)
(* strconv and the integer extractor (params.go)                           *)
(***************************************************************************)
MaxInt32 ==
  2147483647

MinInt32 ==
  -MaxInt32 - 1

HexLetters ==
  <<"a","b","c","d","e","f">>

\* value of one digit byte in bases up to 16, or 99 when it is no digit
DigitOf(ch) ==
  IF isDigit(ch) THEN DigitVal(ch)
  ELSE IF \E i \in DOMAIN HexLetters : ToUpperByte(HexLetters[i]) = ToUpperByte(ch)
  THEN 9 + (CHOOSE i \in DOMAIN HexLetters :
              ToUpperByte(HexLetters[i]) = ToUpperByte(ch))
  ELSE 99

\* marks a magnitude above 2^31
Over ==
  MaxInt32

\* minus the value of a digit string, accumulated downwards so that 2^31 is
\* still representable, or Over
RECURSIVE NegDigitsValue(_, _, _)
NegDigitsValue(s, base, acc) ==
  IF Len(s) = 0 THEN acc
  ELSE LET d == DigitOf(Head(s))
       IN  IF acc < (MinInt32 + d + base - 1) \div base THEN Over
           ELSE NegDigitsValue(Tail(s), base, acc * base - d)

\* a numeric string without its sign
unsigned(s) ==
  IF Len(s) > 0 /\ s[1] \in {"+", "-"} THEN Tail(s) ELSE s

isNegative(s) ==
  Len(s) > 0 /\ s[1] = "-"

\* strconv.ParseInt(s, base, 32): the value and whether an error is returned
ParseInt32(s, base) ==
  With(unsigned(s), LAMBDA body :
    IF Len(body) = 0 \/ \E i \in DOMAIN body : DigitOf(body[i]) >= base
    THEN [val |-> 0, err |-> TRUE]
    ELSE With(NegDigitsValue(body, base, 0), LAMBDA nv :
           IF isNegative(s)
           THEN IF nv = Over THEN [val |-> MinInt32, err |-> TRUE]
                ELSE [val |-> nv, err |-> FALSE]
           ELSE IF nv = Over \/ nv = MinInt32 THEN [val |-> MaxInt32, err |-> TRUE]
                ELSE [val |-> -nv, err |-> FALSE]))

\* int32(val) of a float64 that int32 cannot hold is implementation-dependent
Int32OfOutOfRange(neg) ==
  IF arch = "amd64" THEN MinInt32
  ELSE IF neg THEN MinInt32 ELSE MaxInt32

\* n zero digits
Zeros(n) ==
  [i \in 1..n |-> "0"]

\* the value of an exponent field (99 stands for every longer one)
exponentOf(expDigits, eNeg) ==
  With(IF Len(expDigits) = 0 THEN 0
       ELSE IF Len(expDigits) <= 2 THEN -NegDigitsValue(expDigits, 10, 0)
       ELSE 99, LAMBDA e :
    IF eNeg THEN -e ELSE e)

\* the digits of the integer part of mantDigits * 10^shift
shiftDigits(mantDigits, shift) ==
  IF shift >= 0 THEN mantDigits \o Zeros(shift)
  ELSE IF -shift >= Len(mantDigits) THEN <<"0">>
  ELSE SubSeq(mantDigits, 1, Len(mantDigits) + shift)

\* int32(val) for the float64 with sign neg and truncated magnitude -nv
truncInt32(neg, nv) ==
  IF nv = Over \/ (~neg /\ nv = MinInt32)
  THEN [val |-> Int32OfOutOfRange(neg), err |-> FALSE]
  ELSE [val |-> IF neg THEN nv ELSE -nv, err |-> FALSE]

\* the exponent part of a float literal that starts at fEnd in body:
\* <<well-formed and ending the literal, exponent>>
floatExponent(body, fEnd) ==
  IF peek(body, fEnd) \in {"e", "E"}
  THEN With(IF peek(body, fEnd + 1) \in {"+", "-"} THEN fEnd + 2 ELSE fEnd + 1,
            LAMBDA dStart :
       With(SkipWhile(body, dStart, Range(Digits)), LAMBDA dEnd :
         << dEnd > dStart /\ dEnd = Len(body),
            exponentOf(Slice(body, dStart, dEnd), peek(body, fEnd + 1) = "-") >>))
  ELSE << fEnd = Len(body), 0 >>

\* strconv.ParseFloat(s, 64) followed by int32(val), for decimal literals of
\* up to 15 significant digits (which float64 holds without rounding error
\* visible after truncation) and exponents of up to two digits
ParseFloatInt32(s) ==
  With(unsigned(s), LAMBDA body :
  With(SkipWhile(body, 0, Range(Digits)), LAMBDA iEnd :
  With(IF peek(body, iEnd) = "." THEN iEnd + 1 ELSE iEnd, LAMBDA fStart :
  With(SkipWhile(body, fStart, Range(Digits)), LAMBDA fEnd :
  With(Slice(body, 0, iEnd) \o Slice(body, fStart, fEnd), LAMBDA mantDigits :
  With(floatExponent(body, fEnd), LAMBDA ex :
    IF Len(mantDigits) = 0 \/ ~ex[1]
    THEN [val |-> 0, err |-> TRUE]
    ELSE truncInt32(isNegative(s),
                    NegDigitsValue(shiftDigits(mantDigits, ex[2] - (fEnd - fStart)),
                                   10, 0))))))))

\* strings.TrimSpace
RECURSIVE TrimSpace(_)
TrimSpace(s) ==
  LET sp == {" ", "\t", "\n", "\r"}
  IN  IF Len(s) > 0 /\ s[1] \in sp THEN TrimSpace(Tail(s))
      ELSE IF Len(s) > 0 /\ s[Len(s)] \in sp THEN TrimSpace(SubSeq(s, 1, Len(s) - 1))
      ELSE s

\* the numeric part of a decimal token: cut at the first letter when the
\* token carries a suffix, then TrimSpace
numStrOf(param) ==
  With(param.data, LAMBDA d :
    TrimSpace(Slice(d, 0,
      IF param.type = "TokenDecimalNumericWithSuffix"
           /\ \E i \in DOMAIN d : isAlpha(d[i])
      THEN (CHOOSE i \in DOMAIN d :
              isAlpha(d[i]) /\ \A j \in 1..(i - 1) : ~isAlpha(d[j])) - 1
      ELSE Len(d))))

\* paramToInt32: the context, the value and whether an error is returned
\* the radix of a nondecimal token
radixOf(type) ==
  IF type = "TokenHexNum" THEN 16 ELSE IF type = "TokenOctNum" THEN 8 ELSE 2

\* the unit in the last place of the float32 values of magnitude -nv
RECURSIVE ulp32(_, _)
ulp32(nv, u) ==
  IF (-(nv + 1)) \div u < 2^24 THEN u ELSE ulp32(nv, 2 * u)

\* minus the float32 nearest to the magnitude -nv, ties to even
roundFloat32(nv) ==
  LET u == ulp32(nv, 1)
      r == (u - (nv % u)) % u
      down == nv + r
      up == down - u
  IN  IF 2 * r < u THEN down
      ELSE IF 2 * r > u THEN up
      ELSE IF (down \div u) % 2 = 0 THEN down ELSE up

\* the decimal branch of paramToInt32 with the value taken through a float32
decimalViaFloat32(numStr) ==
  IF ~Contains(numStr, ".") /\ ~Contains(numStr, "e") /\ ~Contains(numStr, "E")
  THEN With(ParseInt32(numStr, 10), LAMBDA r :
         IF r.err THEN r
         ELSE truncInt32(r.val < 0,
                         roundFloat32(IF r.val < 0 THEN r.val ELSE -r.val)))
  ELSE ParseFloatInt32(numStr)

\* the decimal branch of paramToInt32
decimalToInt32(numStr) ==
  IF ~Contains(numStr, ".") /\ ~Contains(numStr, "e") /\ ~Contains(numStr, "E")
  THEN ParseInt32(numStr, 10)
  ELSE ParseFloatInt32(numStr)

\* a conversion result r next to the context
converted(w, r) ==
  [w |-> w, val |-> r.val, err |-> r.err]

paramToInt32(w, param) ==
  IF param.type \in {"TokenHexNum", "TokenOctNum", "TokenBinNum"}
  THEN converted(w, ParseInt32(Slice(param.data, 2, Len(param.data)),
                               radixOf(param.type)))
  ELSE IF param.type \in {"TokenDecimalNumeric", "TokenDecimalNumericWithSuffix"}
  THEN converted(w, decimalToInt32(numStrOf(param)))
  ELSE [w |-> ErrorPush(w, Error(-104, DataTypeError)), val |-> 0, err |-> TRUE]

ParamInt32(w, mandatory) ==
  With(Parameter(w, mandatory), LAMBDA r :
    IF r.err THEN [w |-> r.w, val |-> 0, err |-> TRUE]
    ELSE IF r.tok.type = "TokenUnknown" THEN [w |-> r.w, val |-> 0, err |-> FALSE]
    ELSE paramToInt32(r.w, r.tok))

(***************************************************************************)
(* The boolean extractor (params.go)                                       *)
(***************************************************************************)
InvalidParameterValue ==
  <<"I","n","v","a","l","i","d"," ","p","a","r","a","m","e","t","e","r",
    " ","v","a","l","u","e">>

\* the mnemonic branch of ParamBool
mnemonicToBool(w, str) ==
  IF str \in {<<"O","N">>, <<"1">>} THEN [w |-> w, val |-> TRUE, err |-> FALSE]
  ELSE IF str \in {<<"O","F","F">>, <<"0">>}
  THEN [w |-> w, val |-> FALSE, err |-> FALSE]
  ELSE [w |-> ErrorPush(w, Error(-108, InvalidParameterValue)),
        val |-> FALSE, err |-> TRUE]

\* the integer branch of ParamBool
intToBool(v) ==
  IF v.err THEN [w |-> v.w, val |-> FALSE, err |-> TRUE]
  ELSE [w |-> v.w, val |-> v.val # 0, err |-> FALSE]

ParamBool(w, mandatory) ==
  With(Parameter(w, mandatory), LAMBDA r :
    IF r.err THEN [w |-> r.w, val |-> FALSE, err |-> TRUE]
    ELSE IF r.tok.type = "TokenUnknown" THEN [w |-> r.w, val |-> FALSE, err |-> FALSE]
    ELSE IF r.tok.type = "TokenDecimalNumeric"
    THEN intToBool(paramToInt32(r.w, r.tok))
    ELSE IF r.tok.type = "TokenProgramMnemonic"
    THEN mnemonicToBool(r.w, ToUpper(r.tok.data))
    ELSE [w |-> ErrorPush(r.w, Error(-104, DataTypeError)), val |-> FALSE,
          err |-> TRUE])

(***************************************************************************)
(* The block extractor (params.go)                                         *)
(***************************************************************************)
InvalidArbitraryBlock ==
  <<"I","n","v","a","l","i","d"," ","a","r","b","i","t","r","a","r","y",
    " ","b","l","o","c","k">>

\* the bytes that ParamArbitraryBlock returns for the block token data; a nil
\* slice and an empty one are both <<>>
blockData(w, data) ==
  IF Len(data) < 2 \/ data[1] # "#"
  THEN [w |-> ErrorPush(w, Error(-104, InvalidArbitraryBlock)),
        val |-> <<>>, err |-> TRUE]
  ELSE IF DigitVal(data[2]) = 0
  THEN [w |-> w, val |-> Slice(data, 2, Len(data)), err |-> FALSE]
  ELSE IF Len(data) < 2 + DigitVal(data[2])
  THEN [w |-> ErrorPush(w, Error(-104, InvalidArbitraryBlock)),
        val |-> <<>>, err |-> TRUE]
  ELSE [w |-> w, val |-> Slice(data, 2 + DigitVal(data[2]), Len(data)),
        err |-> FALSE]

ParamArbitraryBlock(w, mandatory) ==
  With(Parameter(w, mandatory), LAMBDA r :
    IF r.err THEN [w |-> r.w, val |-> <<>>, err |-> TRUE]
    ELSE IF r.tok.type = "TokenUnknown" THEN [w |-> r.w, val |-> <<>>, err |-> FALSE]
    ELSE IF r.tok.type # "TokenArbitraryBlock"
    THEN [w |-> ErrorPush(r.w, Error(-104, DataTypeError)), val |-> <<>>,
          err |-> TRUE]
    ELSE blockData(r.w, r.tok.data))

(***************************************************************************)
(* The channel list extractor (params.go)                                  *)
(***************************************************************************)
InvalidChannelList ==
  <<"I","n","v","a","l","i","d"," ","c","h","a","n","n","e","l"," ","l","i","s","t">>

InvalidChannelListEntry ==
  InvalidChannelList \o <<" ","e","n","t","r","y">>

\* parseDimensionValues: the values between the '!' of s
parseDimensionValues(s) ==
  With(Split(s, "!"), LAMBDA parts :
    IF \E i \in DOMAIN parts : ParseInt32(TrimSpace(parts[i]), 10).err
    THEN [val |-> <<>>, err |-> TRUE]
    ELSE [val |-> [i \in DOMAIN parts |-> ParseInt32(TrimSpace(parts[i]), 10).val],
          err |-> FALSE])

\* the larger of two lengths
dimensions(from, to) ==
  IF Len(to) > Len(from) THEN Len(to) ELSE Len(from)

\* the range entry with the ends from and to
rangeEntry(from, to) ==
  IF from.err \/ to.err THEN [val |-> <<>>, err |-> TRUE]
  ELSE [val |-> [IsRange |-> TRUE, From |-> from.val, To |-> to.val,
                 Dimensions |-> dimensions(from.val, to.val)],
        err |-> FALSE]

\* the entry with the single end from
singleEntry(from) ==
  IF from.err THEN [val |-> <<>>, err |-> TRUE]
  ELSE [val |-> [IsRange |-> FALSE, From |-> from.val, To |-> <<>>,
                 Dimensions |-> Len(from.val)],
        err |-> FALSE]

parseChannelListEntry(s) ==
  IF Index(s, ":") >= 0
  THEN rangeEntry(parseDimensionValues(Slice(s, 0, Index(s, ":"))),
                  parseDimensionValues(Slice(s, Index(s, ":") + 1, Len(s))))
  ELSE singleEntry(parseDimensionValues(s))

\* the loop of ParamChannelList over parts, with the entries made so far
RECURSIVE channelEntries(_, _, _)
channelEntries(w, parts, entries) ==
  IF parts = <<>> THEN [w |-> w, val |-> entries, err |-> FALSE]
  ELSE IF TrimSpace(Head(parts)) = <<>>
  THEN channelEntries(w, Tail(parts), entries)
  ELSE With(parseChannelListEntry(TrimSpace(Head(parts))), LAMBDA e :
         IF e.err
         THEN [w |-> ErrorPush(w, Error(-104, InvalidChannelListEntry)),
               val |-> <<>>, err |-> TRUE]
         ELSE channelEntries(w, Tail(parts), Append(entries, e.val)))

\* ParamChannelList for the expression token data; a nil slice and an empty
\* one are both <<>>
channelList(w, data) ==
  IF Len(data) < 3 \/ data[1] # "(" \/ data[2] # "@" \/ Last(data) # ")"
  THEN [w |-> ErrorPush(w, Error(-104, InvalidChannelList)),
        val |-> <<>>, err |-> TRUE]
  ELSE IF TrimSpace(Slice(data, 2, Len(data) - 1)) = <<>>
  THEN [w |-> w, val |-> <<>>, err |-> FALSE]
  ELSE channelEntries(w, Split(TrimSpace(Slice(data, 2, Len(data) - 1)), ","),
                      <<>>)

ParamChannelList(w, mandatory) ==
  With(Parameter(w, mandatory), LAMBDA r :
    IF r.err THEN [w |-> r.w, val |-> <<>>, err |-> TRUE]
    ELSE IF r.tok.type = "TokenUnknown" THEN [w |-> r.w, val |-> <<>>, err |-> FALSE]
    ELSE IF r.tok.type # "TokenProgramExpression"
    THEN [w |-> ErrorPush(r.w, Error(-104, DataTypeError)), val |-> <<>>,
          err |-> TRUE]
    ELSE channelList(r.w, r.tok.data))

(***************************************************************************)
(* The registered command table and its handlers                           *)
(***************************************************************************)
\* "*IDN?" handler: one text result
idnQuery(w) ==
  [w |-> ResultText(w, <<"T", "e", "s", "t">>), result |-> ResOK]

\* handler that fails without pushing an error
failing(w) ==
  [w |-> w, result |-> ResErr]

\* handler that needs one int32 parameter
mandatoryInt(w) ==
  With(ParamInt32(w, TRUE), LAMBDA r :
    [w |-> r.w, result |-> IF r.err THEN ResErr ELSE ResOK])

\* the context in which the handler has kept the value and the error that
\* its extractor returned
keep(r) ==
  [r.w EXCEPT !.got = <<[val |-> <<r.val>>, err |-> r.err]>>]

\* handler that echoes one int32 parameter
echoInt32(w) ==
  With(ParamInt32(w, TRUE), LAMBDA r :
    IF r.err THEN [w |-> keep(r), result |-> ResErr]
    ELSE [w |-> ResultInt32(keep(r), r.val), result |-> ResOK])

\* handler that echoes one arbitrary block parameter
echoBlock(w) ==
  With(ParamArbitraryBlock(w, TRUE), LAMBDA r :
    IF r.err THEN [w |-> keep(r), result |-> ResErr]
    ELSE [w |-> ResultArbitraryBlock(keep(r), r.val), result |-> ResOK])

\* handler that needs one channel list
readChannels(w) ==
  With(ParamChannelList(w, TRUE), LAMBDA r :
    [w |-> keep(r), result |-> IF r.err THEN ResErr ELSE ResOK])

\* OUTPut handler: one boolean parameter
handleOutput(w) ==
  With(ParamBool(w, TRUE), LAMBDA r :
    [w |-> keep(r), result |-> IF r.err THEN ResErr ELSE ResOK])

\* OUTPut? handler: the simulated output state
handleOutputQuery(w) ==
  [w |-> ResultBool(w, TRUE), result |-> ResOK]

\* handler that reads parameters until none is left or one is bad
RECURSIVE readAll(_)
readAll(w) ==
  With(Parameter(w, FALSE), LAMBDA r :
    IF r.err \/ r.tok.type = "TokenUnknown" \/ r.w.panicked
    THEN [w |-> r.w, result |-> ResOK]
    ELSE With(paramToInt32(r.w, r.tok), LAMBDA v :
           IF v.err THEN [w |-> v.w, result |-> ResOK] ELSE readAll(v.w)))

\* SYSTem:ERRor? handler
handleSystemError(w) ==
  IF Len(w.errorQueue) = 0
  THEN [w |-> ResultText(ResultInt32(ErrorPop(w), 0),
                         <<"N","o"," ","e","r","r","o","r">>),
        result |-> ResOK]
  ELSE [w |-> ResultText(ResultInt32(ErrorPop(w), ErrorPopResult(w).Code),
                         ErrorPopResult(w).Info),
        result |-> ResOK]

\* the command table handed to NewContext
commands ==
  << [Pattern |-> <<"*","A","?">>,         Callback |-> "idnQuery"],
     [Pattern |-> <<"A",":","B">>,         Callback |-> "failing"],
     [Pattern |-> <<"A",":","A">>,         Callback |-> "mandatoryInt"],
     [Pattern |-> <<"B">>,                 Callback |-> "readAll"],
     [Pattern |-> <<"A",":","E","?">>,     Callback |-> "handleSystemError"],
     [Pattern |-> <<"C","#",":","D","#">>, Callback |-> "numbers"],
     [Pattern |-> <<"C","#","[",":","F","]",":","G","#">>,
                                           Callback |-> "numbers"],
     [Pattern |-> <<"I">>,                 Callback |-> "echoInt32"],
     [Pattern |-> <<"K","?">>,             Callback |-> "echoBlock"],
     [Pattern |-> <<"L">>,                 Callback |-> "readChannels"],
     [Pattern |-> <<"M","?">>,             Callback |-> "handleOutputQuery"],
     [Pattern |-> <<"M">>,                 Callback |-> "handleOutput"],
     [Pattern |-> <<"N">>,                 Callback |-> "handleOutput"],
     [Pattern |-> <<"N","?">>,             Callback |-> "handleOutputQuery"] >>

\* c.currentCmd.Pattern
currentPattern(w) ==
  commands[w.currentCmd].Pattern

\* IsCmd(pattern)
IsCmd(w, pattern) ==
  IF w.currentCmd = Nil THEN FALSE
  ELSE matchCommand(pattern, currentPattern(w))

\* the trailing digit run of a header part
trailingDigits(hp) ==
  Slice(hp, Len(TrimRightDigits(hp)), Len(hp))

\* strconv.Atoi of a run of at most 9 digits, which cannot fail or overflow
RECURSIVE Atoi(_)
Atoi(ds) ==
  IF ds = <<>> THEN 0
  ELSE 10 * Atoi(SubSeq(ds, 1, Len(ds) - 1)) + DigitVal(Last(ds))

\* the loop of CommandNumbers over the pattern parts from the i-th on
RECURSIVE numbersLoop(_, _, _, _, _)
numbersLoop(result, patternParts, headerParts, i, idx) ==
  IF ~(i < Len(patternParts) /\ i < Len(headerParts) /\ idx < Len(result))
  THEN result
  ELSE IF ~Contains(patternParts[i + 1], "#")
  THEN numbersLoop(result, patternParts, headerParts, i + 1, idx)
  ELSE IF trailingDigits(headerParts[i + 1]) # <<>>
  THEN numbersLoop([result EXCEPT ![idx + 1] = Atoi(trailingDigits(headerParts[i + 1]))],
                   patternParts, headerParts, i + 1, idx + 1)
  ELSE numbersLoop(result, patternParts, headerParts, i + 1, idx + 1)

\* CommandNumbers(count, defaultValue)
CommandNumbers(w, count, defaultValue) ==
  IF w.currentCmd = Nil \/ w.currentHeader = <<>>
  THEN [i \in 1..count |-> defaultValue]
  ELSE numbersLoop([i \in 1..count |-> defaultValue],
                   Split(RemoveAll(RemoveAll(TrimSuffixQ(currentPattern(w)), "["), "]"), ":"),
                   Split(TrimSuffixQ(w.currentHeader), ":"), 0, 0)

\* the count and the default value that the handler asks for
NumbersCount ==
  3

NumbersDefault ==
  7

\* handler that keeps the numeric suffixes of its header
numbers(w) ==
  [w |-> [w EXCEPT !.numbers = CommandNumbers(w, NumbersCount, NumbersDefault)],
   result |-> ResOK]

\* cmd.Callback(c)
Callback(w, cmd) ==
  LET name == commands[cmd].Callback
  IN  IF name = "idnQuery" THEN idnQuery(w)
      ELSE IF name = "numbers" THEN numbers(w)
      ELSE IF name = "echoInt32" THEN echoInt32(w)
      ELSE IF name = "echoBlock" THEN echoBlock(w)
      ELSE IF name = "readChannels" THEN readChannels(w)
      ELSE IF name = "handleOutput" THEN handleOutput(w)
      ELSE IF name = "handleOutputQuery" THEN handleOutputQuery(w)
      ELSE IF name = "failing" THEN failing(w)
      ELSE IF name = "mandatoryInt" THEN mandatoryInt(w)
      ELSE IF name = "readAll" THEN readAll(w)
      ELSE handleSystemError(w)

\* findCommand: index of the first command whose pattern matches, 0 for nil
findCommand(header) ==
  IF \E i \in DOMAIN commands : matchCommand(commands[i].Pattern, header)
  THEN CHOOSE i \in DOMAIN commands :
         /\ matchCommand(commands[i].Pattern, header)
         /\ \A j \in 1..(i - 1) : ~matchCommand(commands[j].Pattern, header)
  ELSE 0

(***************************************************************************)
(* Parse (parser.go)                                                       *)
(***************************************************************************)
\* setCurrent with the line "c.cmdError = false" left out
setCurrentKeepError(w, cmd, headerStr) ==
  [w EXCEPT !.currentCmd = cmd, !.currentHeader = headerStr, !.inputCount = 0]

\* "Set current command": currentCmd, currentHeader, cmdError, inputCount
setCurrent(w, cmd, headerStr) ==
  [w EXCEPT !.currentCmd = cmd, !.currentHeader = headerStr,
            !.cmdError = FALSE, !.inputCount = 0]

\* the parameter span: from the first non-blank byte after the header up to
\* the next ';', "\n" or "\r"
setParams(w, data, paramStart, paramEnd) ==
  [w EXCEPT !.currentParams = Slice(data, paramStart, paramEnd), !.paramsPos = 0]

\* after the callback: -200 when it failed and pushed nothing itself
executionError(w, result) ==
  IF result # ResOK /\ ~w.cmdError
  THEN ErrorPush(w, Error(-200, ExecutionError))
  ELSE w

\* skipTerminator that gives up the rest of the line at a ';'
skipTerminatorDropLine(data, pos, headerStr) ==
  IF ~isEOS(data, pos)
  THEN IF lexSemicolon(data, pos).type = "TokenSemicolon"
       THEN [pos |-> SkipUntil(data, pos, {"\n", "\r"}), prevHeader |-> headerStr]
       ELSE [pos |-> lexNewLine(data, pos), prevHeader |-> <<>>]
  ELSE [pos |-> pos, prevHeader |-> <<>>]

\* skipTerminator that keeps the inherited path over a newline
skipTerminatorKeepPath(data, pos, headerStr) ==
  IF ~isEOS(data, pos)
  THEN IF lexSemicolon(data, pos).type = "TokenSemicolon"
       THEN [pos |-> lexSemicolon(data, pos).pos, prevHeader |-> headerStr]
       ELSE [pos |-> lexNewLine(data, pos), prevHeader |-> headerStr]
  ELSE [pos |-> pos, prevHeader |-> <<>>]

\* "Skip terminator": the position after it and the next prevHeader
skipTerminator(data, pos, headerStr) ==
  IF ~isEOS(data, pos)
  THEN IF lexSemicolon(data, pos).type = "TokenSemicolon"
       THEN [pos |-> lexSemicolon(data, pos).pos, prevHeader |-> headerStr]
       ELSE [pos |-> lexNewLine(data, pos), prevHeader |-> <<>>]
  ELSE [pos |-> pos, prevHeader |-> <<>>]

\* "Write output newline if needed"
outputNewLine(w) ==
  IF ~w.firstOutput THEN writeNewLine(w) ELSE w

\* one handler invocation as the log keeps it: results counts its Result*
\* calls, outBefore and outAfter are the lengths of the sink around it, own is
\* what IsCmd returns to the handler for the Pattern it is registered under
CallRecord(cmd, headerStr, before, r, after) ==
  [cmd |-> cmd, header |-> headerStr, result |-> r.result,
   params |-> before.currentParams,
   consumed |-> r.w.inputCount,
   numbers |-> r.w.numbers,
   got |-> r.w.got,
   own |-> IsCmd(before, commands[cmd].Pattern),
   results |-> r.w.outputCount - before.outputCount,
   outBefore |-> Len(before.out),
   outAfter |-> Len(r.w.out),
   pushedDuring |-> Len(r.w.notified) > Len(before.notified),
   pushedAfter |-> SubSeq(Codes(after.notified), Len(r.w.notified) + 1,
                          Len(after.notified))]

\* invalidCommand that reports the error twice
invalidCommandTwice(w) ==
  [w |-> ErrorPush(ErrorPush(w, Error(-100, InvalidCommand)),
                   Error(-100, InvalidCommand)),
   err |-> "invalid command"]

\* "Invalid command": -100 and the error Parse returns
invalidCommand(w) ==
  [w |-> ErrorPush(w, Error(-100, InvalidCommand)), err |-> "invalid command"]

\* no command matches headerStr: -113 and the error Parse returns
undefinedHeader(w, headerStr) ==
  [w |-> ErrorPush(w, Error(-113, UndefinedHeader \o headerStr)),
   err |-> "undefined header"]

\* the context with the lookup of headerStr for the parsed header logged
logLookup(w, parsed, headerStr) ==
  [w EXCEPT !.lookups = Append(@, [parsed |-> parsed, header |-> headerStr])]

\* the context with the invocation logged: before is the context handed to the
\* callback, r what it returned, w the context after the -200 decision
logCall(w, cmd, headerStr, before, r) ==
  [w EXCEPT !.calls = Append(@, CallRecord(cmd, headerStr, before, r, w))]

\* the loop of Parse from position pos with the inherited path prevHeader
RECURSIVE ParseLoop(_, _, _, _)
ParseLoop(w, data, pos, prevHeader) ==
  With(lexWhitespace(data, pos), LAMBDA p1 :
    IF w.panicked THEN [w |-> w, err |-> "panic"]
    ELSE IF isEOS(data, pos) \/ isEOS(data, p1) THEN [w |-> w, err |-> "nil"]
    ELSE IF peek(data, p1) \in {"\n", "\r"}
    THEN ParseLoop(w, data, lexNewLine(data, p1), <<>>)
    ELSE
  With(lexProgramHeader(data, p1), LAMBDA header :
    IF header.length = 0 \/ header.type = "TokenUnknown"
    THEN invalidCommand(w)
    ELSE
  With(composeCompoundCommand(prevHeader, header.data), LAMBDA headerStr :
  With(findCommand(headerStr), LAMBDA cmd :
  With(logLookup(w, header.data, headerStr), LAMBDA wl :
    IF cmd = 0
    THEN undefinedHeader(wl, headerStr)
    ELSE
  With(lexWhitespace(data, header.pos), LAMBDA paramStart :
  With(SkipUntil(data, paramStart, {";", "\n", "\r"}), LAMBDA paramEnd :
  With(setParams(setCurrent(wl, cmd, headerStr), data, paramStart, paramEnd),
       LAMBDA w1 :
  With(Callback(w1, cmd), LAMBDA r :
  With(logCall(executionError(r.w, r.result), cmd, headerStr, w1, r),
       LAMBDA w3 :
  With(skipTerminator(data, paramEnd, headerStr), LAMBDA t :
    IF w3.panicked THEN [w |-> w3, err |-> "panic"]
    ELSE ParseLoop(outputNewLine(w3), data, t.pos, t.prevHeader))))))))))))

\* what one execution of Parse adds to the log: before and after are the
\* contexts around it
ParseRecord(data, before, after, err) ==
  [data |-> data,
   calls |-> SubSeq(after.calls, Len(before.calls) + 1, Len(after.calls)),
   lookups |-> SubSeq(after.lookups, Len(before.lookups) + 1, Len(after.lookups)),
   pushes |-> SubSeq(Codes(after.notified), Len(before.notified) + 1,
                     Len(after.notified)),
   out |-> SubSeq(after.out, Len(before.out) + 1, Len(after.out)),
   outBase |-> Len(before.out),
   afterOverflow |-> before.inOverflow,
   flushes |-> after.flushes - before.flushes,
   err |-> err]

\* Parse(data): the context afterwards and the error returned ("nil" for
\* none); the execution is added to the log
Parse(w, data) ==
  With(ParseLoop([w EXCEPT !.outputCount = 0, !.firstOutput = TRUE], data, 0, <<>>),
       LAMBDA r :
    [w |-> [r.w EXCEPT !.parses = Append(@, ParseRecord(data, w, r.w, r.err))],
     err |-> r.err])

(***************************************************************************)
(* Input (parser.go)                                                       *)
(***************************************************************************)
\* resetBuffer that leaves the buffer as it is
resetBufferKeep(w) ==
  w

\* c.bufferPos = 0 (the bytes of the buffer are dead from then on)
resetBuffer(w) ==
  [w EXCEPT !.bufferPos = 0, !.inputBuffer = <<>>]

\* the result r of Parse with the buffer reset
afterParse(r) ==
  [w |-> resetBuffer(r.w), err |-> r.err]

\* the result r of Parse for a line that its "\n" has ended
lineEnded(r) ==
  [w |-> [r.w EXCEPT !.inOverflow = FALSE], err |-> r.err]

\* the overflow branch of Input at data[i]: -350, the buffer reset, and the
\* rest of data given up
overflow(w, data, i) ==
  [w |-> [resetBuffer(ErrorPush(w, Error(-350, InputBufferOverflow)))
            EXCEPT !.inOverflow = ~Contains(SubSeq(data, i, Len(data)), "\n")],
   err |-> "input buffer overflow"]

\* bufferFull that lets one byte more in
bufferFullLate(w) ==
  w.bufferPos > BufferSize

\* c.bufferPos >= len(c.inputBuffer)
bufferFull(w) ==
  w.bufferPos >= BufferSize

\* the byte loop of Input over data[i..]
RECURSIVE InputLoop(_, _, _)
InputLoop(w, data, i) ==
  IF w.panicked THEN [w |-> w, err |-> "panic"]
  ELSE IF i > Len(data) THEN [w |-> w, err |-> "nil"]
  ELSE IF bufferFull(w)
  THEN overflow(w, data, i)
  ELSE With([w EXCEPT !.inputBuffer = Append(@, data[i]), !.bufferPos = @ + 1],
            LAMBDA w1 :
         IF data[i] = "\n"
         THEN With(lineEnded(afterParse(Parse(w1, Slice(w1.inputBuffer, 0,
                                                        w1.bufferPos)))),
                   LAMBDA r :
                IF r.err # "nil" THEN r ELSE InputLoop(r.w, data, i + 1))
         ELSE InputLoop(w1, data, i + 1))

Input(w, data) ==
  IF Len(data) = 0
  THEN IF w.bufferPos > 0
       THEN afterParse(Parse(w, Slice(w.inputBuffer, 0, w.bufferPos)))
       ELSE [w |-> w, err |-> "nil"]
  ELSE InputLoop(w, data, 1)

(***************************************************************************)
(* Calls made by the caller on the error queue                             *)
(***************************************************************************)
ErrorPushCall ==
  /\ ~c.panicked
  /\ pushed < MaxPush
  /\ pushed' = pushed + 1
  /\ c' = ErrorPush(c, Error(pushed + 1, <<"e", "r", "r">>))
  /\ IF c'.panicked
     THEN UNCHANGED <<batch, drain, clean, fresh>>
     ELSE /\ drain' = <<>>
          /\ IF Len(c.errorQueue) = 0
             THEN /\ batch' = <<pushed'>>
                  /\ clean' = TRUE
                  /\ fresh' = ~everPopped
             ELSE /\ batch' = Append(batch, pushed')
                  /\ clean' = (clean /\ drain = <<>>)
                  /\ fresh' = fresh
  /\ UNCHANGED <<growth, arch, wire, sent, lastRet, everPopped>>
  /\ UNCHANGED matchVars

ErrorPopCall ==
  /\ ~c.panicked
  /\ c' = ErrorPop(c)
  /\ everPopped' = TRUE
  /\ drain' = IF drain # <<>> /\ Last(drain) = Nil
              THEN drain
              ELSE Append(drain, ErrorPopCode(c))
  /\ UNCHANGED <<growth, arch, wire, sent, lastRet, pushed, batch, clean, fresh>>
  /\ UNCHANGED matchVars

InitQ ==
  /\ c = NewContext
  /\ growth \in {"exact", "double"}
  /\ arch = "amd64"
  /\ wire = <<>>
  /\ sent = <<>>
  /\ lastRet = <<"none", "nil">>
  /\ pushed = 0
  /\ batch = <<>>
  /\ drain = <<>>
  /\ clean = TRUE
  /\ fresh = TRUE
  /\ everPopped = FALSE
  /\ callPattern = <<>>
  /\ callHeader = <<>>
  /\ callRet = <<>>

NextQ ==
  \/ ErrorPushCall
  \/ ErrorPopCall

SpecQ ==
  InitQ /\ [][NextQ]_vars

(***************************************************************************)
(* The controller: what is sent to Parse and Input                         *)
(***************************************************************************)
\* header and parameter text of one program message unit
UnitBodies ==
  { <<"A",":","B">>,
    <<"A">>,
    <<"A"," ","1">>,
    <<"B"," ","1"," ","2">>,
    <<":","B"," ","1",",","2">>,
    <<"*","A","?">>,
    <<"E","?">>,
    <<"1">>,
    <<>> }

Terminators ==
  { <<";">>, <<"\n">> }

Units ==
  { b \o t : b \in UnitBodies, t \in Terminators }

\* the streams made of 1..n units, each also without its last terminator
Wires(n) ==
  LET full == { Concat(us) : us \in UNION { [1..k -> Units] : k \in 1..n } }
  IN  full \cup { SubSeq(x, 1, Len(x) - 1) : x \in full }

\* the places where the controller ends a call: after a terminator, or at
\* the end of what is left
Cuts(data) ==
  { i \in 1..Len(data) : i = Len(data) \/ data[i] \in {";", "\n"} }

InitParser(n) ==
  /\ c = NewContext
  /\ growth = "double"
  /\ arch = "amd64"
  /\ wire \in Wires(n)
  /\ sent = <<>>
  /\ lastRet = <<"none", "nil">>
  /\ pushed = 0
  /\ batch = <<>>
  /\ drain = <<>>
  /\ clean = TRUE
  /\ fresh = TRUE
  /\ everPopped = FALSE
  /\ callPattern = <<>>
  /\ callHeader = <<>>
  /\ callRet = <<>>

\* ctx.Parse(data) on the next n bytes
ParseCall ==
  /\ ~c.panicked
  /\ \E n \in Cuts(wire) :
       /\ \E r \in {Parse(c, SubSeq(wire, 1, n))} :
            /\ c' = r.w
            /\ lastRet' = <<"Parse", r.err>>
       /\ wire' = SubSeq(wire, n + 1, Len(wire))
  /\ UNCHANGED <<growth, arch, sent, pushed, batch, drain, clean, fresh, everPopped>>
  /\ UNCHANGED matchVars

\* ctx.Input(data) on the next n bytes
InputCall ==
  /\ ~c.panicked
  /\ Len(wire) > 0
  /\ \E n \in Cuts(wire) \cup {1} :
       /\ \E r \in {Input(c, SubSeq(wire, 1, n))} :
            /\ c' = r.w
            /\ lastRet' = <<"Input", r.err>>
       /\ wire' = SubSeq(wire, n + 1, Len(wire))
       /\ sent' = sent \o SubSeq(wire, 1, n)
  /\ UNCHANGED <<growth, arch, pushed, batch, drain, clean, fresh, everPopped>>
  /\ UNCHANGED matchVars

\* ctx.Input([]byte{}): parse what the buffer holds
InputFlush ==
  /\ ~c.panicked
  /\ Cardinality({i \in DOMAIN sent : sent[i] = "FLUSH"}) < MaxFlush
  /\ \E r \in {Input(c, <<>>)} :
       /\ c' = r.w
       /\ lastRet' = <<"Input", r.err>>
  /\ sent' = Append(sent, "FLUSH")
  /\ UNCHANGED <<growth, arch, wire, pushed, batch, drain, clean, fresh, everPopped>>
  /\ UNCHANGED matchVars

InitParse ==
  InitParser(MaxUnits)

NextParse ==
  ParseCall

SpecParse ==
  InitParse /\ [][NextParse]_vars

InitInput ==
  InitParser(MaxUnitsIn)

NextInput ==
  \/ InputCall
  \/ InputFlush

SpecInput ==
  InitInput /\ [][NextInput]_vars

(***************************************************************************)
(* Direct calls of the matcher                                             *)
(***************************************************************************)
\* keyword patterns: short form and long form, a keyword with no long form,
\* one with a digit, one whose lowercase part is followed by a capital
KeywordPatterns ==
  { <<"A","B","a","b">>, <<"A","b">>, <<"A","B">>, <<"A","1","b">>,
    <<"A","b","A">> }

KeywordBytes ==
  {"A", "a", "B", "b", "1"}

\* the byte strings over set of at most n bytes
Strings(set, n) ==
  UNION { [1..k -> set] : k \in 0..n }

InitKeyword ==
  /\ c = NewContext
  /\ growth = "double"
  /\ arch = "amd64"
  /\ wire = <<>>
  /\ sent = <<>>
  /\ lastRet = <<"none", "nil">>
  /\ pushed = 0
  /\ batch = <<>>
  /\ drain = <<>>
  /\ clean = TRUE
  /\ fresh = TRUE
  /\ everPopped = FALSE
  /\ callPattern \in KeywordPatterns
  /\ callHeader \in Strings(KeywordBytes, MaxValueLen)
  /\ callRet = <<>>

\* matchPattern(pattern, value)
MatchPatternCall ==
  /\ callRet = <<>>
  /\ callRet' = <<matchPattern(callPattern, callHeader)>>
  /\ UNCHANGED <<c, growth, arch, wire, sent, lastRet, pushed, batch, drain,
                 clean, fresh, everPopped, callPattern, callHeader>>

NextKeyword ==
  MatchPatternCall

SpecKeyword ==
  InitKeyword /\ [][NextKeyword]_vars

\* command patterns with one optional node, at the end, in the middle and in
\* front, and with two optional nodes
CommandPatterns ==
  { <<"A","[",":","B","]">>,
    <<"A","[",":","B","]",":","C","?">>,
    <<"[",":","A","]",":","B">>,
    <<"A","[",":","B","]",":","C","[",":","D","]">> }

CallNodes ==
  { <<"A">>, <<"B">>, <<"C">>, <<"D">>, <<"b">> }

\* the nodes ns joined by ':'
RECURSIVE JoinNodes(_)
JoinNodes(ns) ==
  IF Len(ns) = 1 THEN ns[1]
  ELSE ns[1] \o <<":">> \o JoinNodes(Tail(ns))

\* headers of at most n nodes, with and without a leading ':' and a final '?'
Headers(n) ==
  { lead \o JoinNodes(ns) \o query :
      lead \in {<<>>, <<":">>}, query \in {<<>>, <<"?">>},
      ns \in UNION { [1..k -> CallNodes] : k \in 1..n } }

InitHeader ==
  /\ c = NewContext
  /\ growth = "double"
  /\ arch = "amd64"
  /\ wire = <<>>
  /\ sent = <<>>
  /\ lastRet = <<"none", "nil">>
  /\ pushed = 0
  /\ batch = <<>>
  /\ drain = <<>>
  /\ clean = TRUE
  /\ fresh = TRUE
  /\ everPopped = FALSE
  /\ callPattern \in CommandPatterns
  /\ callHeader \in Headers(MaxNodes)
  /\ callRet = <<>>

\* matchCommand(pattern, header)
MatchCommandCall ==
  /\ callRet = <<>>
  /\ callRet' = <<matchCommand(callPattern, callHeader)>>
  /\ UNCHANGED <<c, growth, arch, wire, sent, lastRet, pushed, batch, drain,
                 clean, fresh, everPopped, callPattern, callHeader>>

NextHeader ==
  MatchCommandCall

SpecHeader ==
  InitHeader /\ [][NextHeader]_vars

(***************************************************************************)
(* Headers with numeric suffixes, and CommandNumbers called directly       *)
(***************************************************************************)
NumberBodies ==
  { <<"C","1",":","D","2">>,
    <<":","C","1",":","D","2">>,
    <<"C",":","D">>,
    <<"C","1",":","D">>,
    <<"c",":","d","1","2">>,
    <<"D","3">>,
    <<"C","1",":","G","2">>,
    <<"C","1",":","F",":","G","2">> }

\* the streams made of 1..n units with the given bodies, each also without
\* its last terminator
WiresOf(bodies, n) ==
  LET units == { b \o t : b \in bodies, t \in Terminators }
      full == { Concat(us) : us \in UNION { [1..k -> units] : k \in 1..n } }
  IN  full \cup { SubSeq(x, 1, Len(x) - 1) : x \in full }

InitNumbers ==
  /\ c = NewContext
  /\ growth = "double"
  /\ arch = "amd64"
  /\ wire \in WiresOf(NumberBodies, MaxUnitsIn)
  /\ sent = <<>>
  /\ lastRet = <<"none", "nil">>
  /\ pushed = 0
  /\ batch = <<>>
  /\ drain = <<>>
  /\ clean = TRUE
  /\ fresh = TRUE
  /\ everPopped = FALSE
  /\ callPattern = <<>>
  /\ callHeader = <<>>
  /\ callRet = <<>>

\* ctx.CommandNumbers(count, d) called by the owner of the context
CommandNumbersCall ==
  /\ callRet = <<>>
  /\ \E count \in 0..MaxCount, d \in {0, NumbersDefault} :
       /\ callHeader' = <<count, d>>
       /\ callRet' = <<CommandNumbers(c, count, d)>>
  /\ UNCHANGED <<c, growth, arch, wire, sent, lastRet, pushed, batch, drain,
                 clean, fresh, everPopped, callPattern>>

NextNumbers ==
  \/ ParseCall
  \/ CommandNumbersCall

SpecNumbers ==
  InitNumbers /\ [][NextNumbers]_vars

(***************************************************************************)
(* IsCmd called by the owner of the context, between Parse calls           *)
(***************************************************************************)
\* the patterns asked about: the registered ones and one that is not
AskedPatterns ==
  {commands[i].Pattern : i \in DOMAIN commands} \cup {<<"Z">>}

\* ctx.IsCmd(pattern) outside any handler
IsCmdCall ==
  /\ ~c.panicked
  /\ \E p \in AskedPatterns :
       /\ callPattern' = p
       /\ callRet' = <<IsCmd(c, p)>>
  /\ UNCHANGED <<c, growth, arch, wire, sent, lastRet, pushed, batch, drain,
                 clean, fresh, everPopped, callHeader>>

InitIsCmd ==
  InitParser(MaxUnitsIn)

NextIsCmd ==
  \/ ParseCall
  \/ IsCmdCall

SpecIsCmd ==
  InitIsCmd /\ [][NextIsCmd]_vars

(***************************************************************************)
(* Parameter and the extractors called as a handler calls them             *)
(***************************************************************************)
\* parameter spans as Parse cuts them: no blank in front
ParamSpans ==
  { <<>>,
    <<"1">>,
    <<"1"," ">>,
    <<"1",",","2">>,
    <<"1"," ","2">>,
    <<"1",","," ","2"," ">>,
    <<",","1">>,
    <<"@">>,
    <<"1"," ","V",",","a">>,
    <<"#","1","1","a">> }

\* the bytes of the parameter span from the cursor on hold no parameter
exhausted(w) ==
  isEOS(w.currentParams, lexWhitespace(w.currentParams, w.paramsPos))

InitParam ==
  /\ c = NewContext
  /\ growth = "double"
  /\ arch = "amd64"
  /\ wire = <<>>
  /\ sent = <<>>
  /\ lastRet = <<"none", "nil">>
  /\ pushed = 0
  /\ batch = <<>>
  /\ drain = <<>>
  /\ clean = TRUE
  /\ fresh = TRUE
  /\ everPopped = FALSE
  /\ callPattern = <<>>
  /\ callHeader = <<>>
  /\ callRet = <<>>

\* Parse up to the callback of the command "B": the lookup, the current
\* command and the parameter span
Dispatch ==
  /\ Len(c.lookups) < MaxDispatch
  /\ \E cmd \in {findCommand(<<"B">>)}, span \in ParamSpans :
       c' = setParams(setCurrent(logLookup(c, commands[cmd].Pattern,
                                           commands[cmd].Pattern),
                                 cmd, commands[cmd].Pattern),
                      span, 0, Len(span))
  /\ callRet' = <<>>
  /\ UNCHANGED <<growth, arch, wire, sent, lastRet, pushed, batch, drain,
                 clean, fresh, everPopped, callPattern, callHeader>>

\* ctx.Parameter(mandatory) in the handler
ParameterCall ==
  /\ c.currentCmd # Nil
  /\ Len(callRet) < MaxCalls
  /\ \E mandatory \in BOOLEAN :
       \E r \in {Parameter(c, mandatory)} :
         /\ c' = r.w
         /\ callRet' = Append(callRet, [call |-> "Parameter",
                                        mandatory |-> mandatory,
                                        val |-> r.tok.data, err |-> r.err])
  /\ UNCHANGED <<growth, arch, wire, sent, lastRet, pushed, batch, drain,
                 clean, fresh, everPopped, callPattern, callHeader>>

\* one of the extractors called in the handler when no parameter is left
ExtractorCall ==
  /\ c.currentCmd # Nil
  /\ Len(callRet) < MaxCalls
  /\ exhausted(c)
  /\ \E kind \in Extractors, mandatory \in BOOLEAN :
       \E r \in {extractorHead(c, kind, mandatory)} :
         /\ c' = r.w
         /\ callRet' = Append(callRet, [call |-> kind, mandatory |-> mandatory,
                                        val |-> r.val, err |-> r.err])
  /\ UNCHANGED <<growth, arch, wire, sent, lastRet, pushed, batch, drain,
                 clean, fresh, everPopped, callPattern, callHeader>>

NextParam ==
  \/ Dispatch
  \/ ParameterCall
  \/ ExtractorCall

SpecParam ==
  InitParam /\ [][NextParam]_vars

(***************************************************************************)
(* One command line with one parameter span, handed to Parse               *)
(***************************************************************************)
\* v and the values whose decimal text is a prefix of that of v, for v >= 0
RECURSIVE Tenths(_)
Tenths(v) ==
  IF v = 0 THEN {0} ELSE {v} \cup Tenths(v \div 10)

\* int32 values of every number of digits, near both extrema and near zero
Int32Samples ==
  UNION { {b - i, (i - b) - 1} : b \in Tenths(MaxInt32), i \in 0..MaxOffset }

\* fmt.Sprintf("%d", val) for the samples
Int32Spans ==
  { IntToDec(v) : v \in Int32Samples }

\* the bytes of the blocks: a letter and the two message terminators
BlockBytes ==
  {"a", ";", "\n"}

BlockData ==
  Strings(BlockBytes, MaxBlockLen)

\* what ResultArbitraryBlock(data) writes to the sink of a new context
BlockText(data) ==
  ResultArbitraryBlock(NewContext, data).out

\* channel lists with one and two entries, a range, two dimensions, blanks,
\* an empty entry, a bad entry, no entry, no '@', and tokens of other kinds
ChannelSpans ==
  { <<"(","@","1",")">>,
    <<"(","@","1",",","2",")">>,
    <<"(","@","1",":","3",")">>,
    <<"(","@","1","!","2",":","3","!","4",")">>,
    <<"(","@"," ","1"," ",")">>,
    <<"(","@","1",",",",","2",")">>,
    <<"(","@","a",")">>,
    <<"(","@","1",":",")">>,
    <<"(","@",")">>,
    <<"(","@"," ",")">>,
    <<"(","1",",","2",",","3",")">>,
    <<"(",")">>,
    <<"1","2","3">>,
    <<"a">>,
    <<"'","a","'">> }

\* a command and its query form, registered in both orders
OutputHeaders ==
  { <<"M">>, <<"M","?">>, <<"N">>, <<"N","?">> }

\* the parameter of the command: a mnemonic, a number, or none
OutputSpans ==
  { <<"O","N">>, <<"o","f","f">>, <<"1">>, <<>> }

\* parameter spans that begin with no program data: a byte that starts no
\* token, unterminated strings, an unclosed expression, a block longer than
\* the span
BadSpans ==
  { <<"@">>,
    <<"'","a">>,
    <<"\"","1">>,
    <<"(","1">>,
    <<"#">>,
    <<"#","1","2","a">> }

\* decimal literals: integer, fractional and exponent forms
DecimalLiterals ==
  { <<"1","0","0">>,
    <<"-","5">>,
    <<"3",".","1","4">>,
    <<"-","5",".","5">>,
    <<"1","e","3">>,
    <<"2","E","1">>,
    <<"1",".","5","e","2">>,
    <<"5","e","-","1">> }

\* unit suffixes
Suffixes ==
  { <<"V">>, <<"m","V">>, <<"H","z">> }

\* a literal alone, and followed by a suffix with and without a blank between
SuffixSpans ==
  DecimalLiterals
    \cup { n \o b \o x : n \in DecimalLiterals, b \in {<<>>, <<" ">>},
                         x \in Suffixes }

\* the header and the parameter span of the lines sent
ExtractCases ==
  { <<<<"I">>, s>> : s \in Int32Spans \cup BadSpans \cup SuffixSpans }
    \cup { <<<<"K","?">>, BlockText(d)>> : d \in BlockData }
    \cup { <<<<"L">>, s>> : s \in ChannelSpans }
    \cup (OutputHeaders \X OutputSpans)

InitExtract ==
  /\ c = NewContext
  /\ growth = "double"
  /\ arch \in {"amd64", "arm64"}
  /\ \E cs \in ExtractCases :
       /\ callPattern = cs[1]
       /\ callHeader = cs[2]
       /\ wire = cs[1] \o <<" ">> \o cs[2] \o <<"\n">>
  /\ sent = <<>>
  /\ lastRet = <<"none", "nil">>
  /\ pushed = 0
  /\ batch = <<>>
  /\ drain = <<>>
  /\ clean = TRUE
  /\ fresh = TRUE
  /\ everPopped = FALSE
  /\ callRet = <<>>

NextExtract ==
  ParseCall

SpecExtract ==
  InitExtract /\ [][NextExtract]_vars

(***************************************************************************)
(* Claims on the error queue                                               *)
(***************************************************************************)
\* C1: in every reachable state the error queue holds at most 10 entries.
C1_QueueAtMostTen ==
  Len(c.errorQueue) <= QueueCap

\* C2: on a fresh context, 10 + k pushes with no pop in between, then pops
\* until nil, yield exactly the last 10 pushed errors in push order.
C2_OverflowDrain ==
  (fresh /\ clean /\ Len(batch) >= QueueCap /\ drain # <<>> /\ Last(drain) = Nil)
    => drain = Append(LastN(batch, QueueCap), Nil)

\* C3: from an empty queue, pushing e1..eN (N <= 10) and then popping returns
\* e1..eN in that order and then nil.
C3_FifoFromEmpty ==
  (clean /\ Len(batch) <= QueueCap) => IsPrefix(drain, Append(batch, Nil))

\* C4: a push onto a queue of fewer than 10 entries appends and discards
\* nothing.
C4_PushBelowTenAppends ==
  [][(pushed' = pushed + 1 /\ Len(c.errorQueue) < QueueCap)
       => Codes(c'.errorQueue) = Append(Codes(c.errorQueue), pushed')]_vars

(***************************************************************************)
(* The text of a program message, read as the specification reads it       *)
(***************************************************************************)
NewLineBytes ==
  {"\n", "\r"}

\* the lines of data: the pieces between newline bytes
RECURSIVE SplitLines(_)
SplitLines(s) ==
  IF \E i \in DOMAIN s : s[i] \in NewLineBytes
  THEN LET i == CHOOSE k \in DOMAIN s :
                  s[k] \in NewLineBytes /\ \A j \in 1..(k - 1) : s[j] \notin NewLineBytes
       IN  <<SubSeq(s, 1, i - 1)>> \o SplitLines(SubSeq(s, i + 1, Len(s)))
  ELSE <<s>>

isBlank(s) ==
  \A i \in DOMAIN s : isWhitespace(s[i])

TrimLeft(s) ==
  SubSeq(s, lexWhitespace(s, 0) + 1, Len(s))

\* the commands of a line: its pieces between ';', without leading blanks; a
\* blank piece after the last ';' is no command
CommandTexts(line) ==
  LET pieces == Split(line, ";")
      kept == IF isBlank(Last(pieces))
              THEN SubSeq(pieces, 1, Len(pieces) - 1) ELSE pieces
  IN  [i \in DOMAIN kept |-> TrimLeft(kept[i])]

\* the effective header of a command with header parsed, where prev is the
\* effective header of the command before it on the line
EffectiveHeader(prev, parsed, first) ==
  IF first THEN parsed
  ELSE IF parsed[1] \in {"*", ":"} THEN parsed
  ELSE IF prev[1] = "*" \/ ~Contains(prev, ":") THEN parsed
  ELSE SubSeq(prev, 1, LastIndex(prev, ":") + 1) \o parsed

NoFinding ==
  [lookups |-> <<>>, calls |-> <<>>, err |-> "nil"]

\* the commands of one line from the i-th on: the lookups made, the handlers
\* due, and what stops the line
RECURSIVE WalkLine(_, _, _, _)
WalkLine(texts, i, prev, acc) ==
  IF i > Len(texts) THEN acc
  ELSE LET h == lexProgramHeader(texts[i], 0)
           eff == EffectiveHeader(prev, h.data, i = 1)
           cmd == findCommand(eff)
           acc1 == [acc EXCEPT !.lookups =
                      Append(@, [parsed |-> h.data, header |-> eff])]
       IN  IF h.length = 0 \/ h.type = "TokenUnknown"
           THEN [acc EXCEPT !.err = "invalid command"]
           ELSE IF cmd = 0
           THEN [acc1 EXCEPT !.err = "undefined header"]
           ELSE WalkLine(texts, i + 1, eff,
                         [acc1 EXCEPT !.calls =
                            Append(@, [cmd |-> cmd, header |-> eff])])

LineFinding(line) ==
  WalkLine(CommandTexts(line), 1, <<>>, NoFinding)

\* the lines from the k-th on, up to and including the first that fails;
\* good collects the handlers of the lines that do not fail
RECURSIVE WalkLines(_, _, _)
WalkLines(lines, k, acc) ==
  IF k > Len(lines) THEN acc
  ELSE LET f == LineFinding(lines[k])
           acc1 == [acc EXCEPT !.lookups = @ \o f.lookups,
                               !.calls = @ \o f.calls,
                               !.err = f.err]
       IN  IF f.err # "nil" THEN acc1
           ELSE WalkLines(lines, k + 1, [acc1 EXCEPT !.good = @ \o f.calls])

Expected(data) ==
  WalkLines(SplitLines(data), 1,
            [lookups |-> <<>>, calls |-> <<>>, good |-> <<>>, err |-> "nil"])

\* the handlers an execution of Parse invoked, as <<command, header>>
Invoked(p) ==
  [j \in DOMAIN p.calls |-> [cmd |-> p.calls[j].cmd, header |-> p.calls[j].header]]

\* how often code occurs among the errors pushed during an execution of Parse
Pushed(p, code) ==
  Cardinality({j \in DOMAIN p.pushes : p.pushes[j] = code})

Executions ==
  {c.parses[i] : i \in DOMAIN c.parses}

(***************************************************************************)
(* Claims on the dispatcher                                                *)
(***************************************************************************)
\* C5: for the lines whose commands all have an effective header that matches
\* a registered pattern, Parse invokes the matched handlers once each and in
\* textual order, whatever they return and however many parameters they take.
C5_HandlersOnceInOrder ==
  \A p \in Executions :
    /\ IsPrefix(Expected(p.data).good, Invoked(p))
    /\ Expected(p.data).err = "nil" => Invoked(p) = Expected(p.data).good

\* a line of two or more matched commands, one of which failed and one of
\* which left all its parameters unread
C5_Witness ==
  \E p \in Executions :
    /\ Expected(p.data).err = "nil"
    /\ Len(p.calls) >= 2
    /\ \E j \in DOMAIN p.calls : p.calls[j].result # ResOK
    /\ \E j \in DOMAIN p.calls :
         p.calls[j].params # <<>> /\ p.calls[j].consumed = 0

\* C6: the header looked up is the parsed header for the first command of a
\* line, for a header beginning with '*' or ':', and after a command whose
\* header began with '*' or has no ':'; otherwise it is the previous effective
\* header through its last ':' followed by the parsed header.  The inherited
\* path is set by ';' only and cleared by a newline.
C6_EffectiveHeader ==
  \A p \in Executions : p.lookups = Expected(p.data).lookups

\* one execution in which a command inherited a path over ';' and a later
\* command, after a newline, did not although the header before it had a path
C6_Witness ==
  \E p \in Executions :
    \E i, j \in DOMAIN p.lookups :
      /\ i < j
      /\ p.lookups[i].header # p.lookups[i].parsed
      /\ p.lookups[j].header = p.lookups[j].parsed
      /\ p.lookups[j].parsed[1] \notin {"*", ":"}
      /\ Contains(p.lookups[j - 1].header, ":")
      /\ p.lookups[j - 1].header[1] # "*"

\* C7: a command that is no valid program header makes Parse push exactly one
\* -100, a valid header that matches no pattern exactly one -113; no handler
\* runs for that command or a later one of the line, and the handlers of the
\* commands before it have run.
C7_AbortLine ==
  \A p \in Executions :
    LET e == Expected(p.data)
    IN  /\ Pushed(p, -100) = (IF e.err = "invalid command" THEN 1 ELSE 0)
        /\ Pushed(p, -113) = (IF e.err = "undefined header" THEN 1 ELSE 0)
        /\ e.err # "nil" => /\ Invoked(p) = e.calls
                            /\ p.err = e.err
                            /\ Last(p.pushes) = (IF e.err = "invalid command"
                                                 THEN -100 ELSE -113)

\* an undefined header after a handler that ran on the same line, and an
\* invalid header
C7_Witness ==
  /\ \E p \in Executions :
       /\ p.err = "undefined header"
       /\ Len(p.calls) >= 1
       /\ Len(SplitLines(p.data)) = 1
  /\ \E p \in Executions : p.err = "invalid command"

\* C8: after a handler returns, Parse pushes -200 exactly when the handler
\* returned something other than ResOK and no ErrorPush happened during the
\* invocation; errors pushed by earlier commands of the line do not matter.
C8_ExecutionError ==
  \A p \in Executions :
    \A j \in DOMAIN p.calls :
      p.calls[j].pushedAfter =
        (IF p.calls[j].result # ResOK /\ ~p.calls[j].pushedDuring
         THEN <<-200>> ELSE <<>>)

\* a line on which a handler pushed an error itself and a later handler
\* failed without pushing, which drew -200
C8_Witness ==
  \E p \in Executions :
    /\ Len(SplitLines(p.data)) = 1
    /\ \E i, j \in DOMAIN p.calls :
         /\ i < j
         /\ p.calls[i].pushedDuring
         /\ p.calls[j].result # ResOK
         /\ ~p.calls[j].pushedDuring
         /\ p.calls[j].pushedAfter = <<-200>>

(***************************************************************************)
(* Claims on the input framer                                              *)
(***************************************************************************)
\* the bytes handed to Input so far
SentBytes ==
  SelectSeq(sent, LAMBDA b : b # "FLUSH")

\* the lines of a byte stream that their "\n" completes
CompleteLines(bytes) ==
  LET lines == Split(bytes, "\n")
  IN  SubSeq(lines, 1, Len(lines) - 1)

\* the handlers due for the lines from the k-th on, each line on its own
RECURSIVE DueFrom(_, _)
DueFrom(lines, k) ==
  IF k > Len(lines) THEN <<>>
  ELSE LineFinding(lines[k]).calls \o DueFrom(lines, k + 1)

IsSuffix(t, s) ==
  Len(t) <= Len(s) /\ SubSeq(s, Len(s) - Len(t) + 1, Len(s)) = t

\* the buffer never overflowed and was never parsed before its newline
PlainInput ==
  /\ \A i \in DOMAIN sent : sent[i] # "FLUSH"
  /\ \A i \in DOMAIN c.notified : c.notified[i].Code # -350

\* C9: Input returns failure only for input-buffer overflow; an invalid (-100)
\* or undefined (-113) header in a buffered line is only pushed and notified,
\* and Input returns success.
C9_InputFailsOnlyOnOverflow ==
  lastRet[1] = "Input" => lastRet[2] \in {"nil", "input buffer overflow"}

\* C10: after a line failed with -100 or -113, every later complete line handed
\* to Input, in the same call or a later one, is parsed and its commands are
\* dispatched as if the failed line had not been sent.
C10_ErrorsLocalToLine ==
  PlainInput =>
    \A k \in DOMAIN CompleteLines(SentBytes) :
      LineFinding(CompleteLines(SentBytes)[k]).err # "nil"
        => IsSuffix(DueFrom(CompleteLines(SentBytes), k + 1),
                    [j \in DOMAIN c.calls |->
                       [cmd |-> c.calls[j].cmd, header |-> c.calls[j].header]])

\* what Input does with the bytes data[i..] when the buffer holds buf: the
\* lines it hands to Parse, whether a byte arrived at a full buffer, and the
\* buffer left.  A line that Parse rejects ends the call.
RECURSIVE Framing(_, _, _, _)
Framing(buf, data, i, lines) ==
  IF i > Len(data) THEN [over |-> FALSE, lines |-> lines, buf |-> buf]
  ELSE IF Len(buf) = BufferSize
  THEN [over |-> TRUE, lines |-> lines, buf |-> <<>>]
  ELSE IF data[i] = "\n"
  THEN IF Expected(Append(buf, "\n")).err # "nil"
       THEN [over |-> FALSE, lines |-> Append(lines, Append(buf, "\n")),
             buf |-> <<>>]
       ELSE Framing(<<>>, data, i + 1, Append(lines, Append(buf, "\n")))
  ELSE Framing(Append(buf, data[i]), data, i + 1, lines)

\* the bytes of the Input call that a step makes (none for other steps)
StepData ==
  IF Len(sent') > Len(sent) /\ Last(sent') # "FLUSH"
  THEN SubSeq(sent', Len(sent) + 1, Len(sent'))
  ELSE <<>>

\* the data of the Parse executions that a step makes
StepParsed ==
  [i \in 1..(Len(c'.parses) - Len(c.parses)) |-> c'.parses[Len(c.parses) + i].data]

\* the error codes that a step pushes
StepPushes ==
  SubSeq(Codes(c'.notified), Len(c.notified) + 1, Len(c'.notified))

\* C11: the fill position never exceeds the capacity.  An Input call pushes
\* one -350, empties the buffer and fails exactly when one of its bytes arrives
\* while the buffer holds capacity bytes; otherwise every line completed by a
\* "\n" (so every line of at most capacity bytes with its "\n") is parsed.
C11_OverflowExact ==
  [][/\ c'.bufferPos <= BufferSize
     /\ c'.bufferPos = Len(c'.inputBuffer)
     /\ StepData # <<>> =>
          LET f == Framing(c.inputBuffer, StepData, 1, <<>>)
          IN  /\ Cardinality({j \in DOMAIN StepPushes : StepPushes[j] = -350})
                   = (IF f.over THEN 1 ELSE 0)
              /\ (lastRet'[2] = "input buffer overflow") = f.over
              /\ f.over => c'.bufferPos = 0 /\ Last(StepPushes) = -350
              /\ StepParsed = f.lines
              /\ c'.inputBuffer = f.buf]_vars

\* an Input call met a full buffer: it pushed -350, emptied the buffer and
\* failed
C11_Witness ==
  /\ lastRet = <<"Input", "input buffer overflow">>
  /\ c.bufferPos = 0
  /\ c.notified # <<>> /\ Last(c.notified).Code = -350

\* a step is Input(<<>>)
IsFlushStep ==
  Len(sent') > Len(sent) /\ Last(sent') = "FLUSH"

\* C12: Input invokes no handler for buffered bytes until a "\n" arrives or
\* Input is called with empty data: bytes without "\n" are added to the buffer,
\* over as many calls as they take, and nothing is parsed.  Input with empty
\* data parses the buffered bytes, and on an empty buffer it does nothing and
\* succeeds.  After a line has been parsed the buffer is empty.
C12_BufferUntilNewline ==
  [][/\ (StepData # <<>> /\ ~Contains(StepData, "\n")
           /\ Len(c.inputBuffer) + Len(StepData) <= BufferSize)
          => /\ c'.inputBuffer = c.inputBuffer \o StepData
             /\ c'.parses = c.parses
             /\ c'.calls = c.calls
             /\ c'.out = c.out
             /\ lastRet' = <<"Input", "nil">>
     /\ (StepData # <<>> /\ Last(StepData) = "\n") => c'.bufferPos = 0
     /\ (IsFlushStep /\ c.bufferPos = 0)
          => c' = c /\ lastRet' = <<"Input", "nil">>
     /\ (IsFlushStep /\ c.bufferPos > 0)
          => /\ StepParsed = <<c.inputBuffer>>
             /\ c'.bufferPos = 0
     /\ c'.calls # c.calls
          => \/ IsFlushStep
             \/ /\ StepParsed # <<>>
                /\ \A k \in DOMAIN StepParsed : Last(StepParsed[k]) = "\n"]_vars

\* Input with empty data was called on an empty buffer, then a line of two
\* commands arrived in pieces, stayed buffered and was parsed at its "\n"
C12_Witness ==
  /\ sent # <<>> /\ sent[1] = "FLUSH"
  /\ Len(sent) > 1 /\ Last(sent) = "\n"
  /\ Len(c.parses) = 1
  /\ c.parses[1].data = SentBytes
  /\ Len(c.parses[1].calls) = 2
  /\ c.bufferPos = 0

(***************************************************************************)
(* Claims on the response framing                                          *)
(***************************************************************************)
RECURSIVE SumSeq(_)
SumSeq(ns) ==
  IF ns = <<>> THEN 0 ELSE Head(ns) + SumSeq(Tail(ns))

\* how many bytes of s are "\n"
NewLines(s) ==
  Cardinality({i \in DOMAIN s : s[i] = "\n"})

\* the lines of an execution that Parse reaches: no line before them fails
ReachedLines(p) ==
  {k \in DOMAIN SplitLines(p.data) :
     \A i \in 1..(k - 1) : LineFinding(SplitLines(p.data)[i]).err = "nil"}

\* the positions, in the calls of an execution, of the handlers of line k
LineCalls(p, k) ==
  LET lines == SplitLines(p.data)
      first == SumSeq([i \in 1..(k - 1) |-> Len(LineFinding(lines[i]).calls)])
  IN  [n \in 1..Len(LineFinding(lines[k]).calls) |-> first + n]

\* the bytes a handler invocation wrote
Written(p, j) ==
  SubSeq(p.out, p.calls[j].outBefore - p.outBase + 1,
                p.calls[j].outAfter - p.outBase)

\* the bytes Parse wrote after a handler invocation, before the next one
Closing(p, j) ==
  SubSeq(p.out, p.calls[j].outAfter - p.outBase + 1,
         IF j < Len(p.calls) THEN p.calls[j + 1].outBefore - p.outBase
         ELSE Len(p.out))

\* the number of Result* calls made by the handlers of line k
LineResults(p, k) ==
  SumSeq([n \in DOMAIN LineCalls(p, k) |-> p.calls[LineCalls(p, k)[n]].results])

\* the number of newlines written for line k
LineNewLines(p, k) ==
  SumSeq([n \in DOMAIN LineCalls(p, k) |-> NewLines(Closing(p, LineCalls(p, k)[n]))])

\* C13: for every line of the input a newline is written to the sink if and
\* only if the handlers of that line made at least one Result* call.
C13_NewlineIffResult ==
  \A p \in Executions :
    \A k \in ReachedLines(p) :
      (LineNewLines(p, k) > 0) <=> (LineResults(p, k) > 0)

\* the bytes of a handler invocation without the delimiter in front of them
Results(p, j) ==
  IF Written(p, j) # <<>> /\ Head(Written(p, j)) = ","
  THEN Tail(Written(p, j)) ELSE Written(p, j)

\* the non-empty ones of the byte strings rs, joined by single commas
RECURSIVE JoinResults(_)
JoinResults(rs) ==
  IF rs = <<>> THEN <<>>
  ELSE IF Head(rs) = <<>> THEN JoinResults(Tail(rs))
  ELSE IF JoinResults(Tail(rs)) = <<>> THEN Head(rs)
  ELSE Head(rs) \o <<",">> \o JoinResults(Tail(rs))

\* the bytes written to the sink for line k
LineOutput(p, k) ==
  IF LineCalls(p, k) = <<>> THEN <<>>
  ELSE SubSeq(p.out,
              p.calls[LineCalls(p, k)[1]].outBefore - p.outBase + 1,
              p.calls[Last(LineCalls(p, k))].outAfter - p.outBase
                + Len(Closing(p, Last(LineCalls(p, k)))))

\* the response the specification gives line k
LineResponse(p, k) ==
  IF LineResults(p, k) = 0 THEN <<>>
  ELSE Append(JoinResults([n \in DOMAIN LineCalls(p, k) |->
                             Results(p, LineCalls(p, k)[n])]), "\n")

\* C14: for every line, whatever number of commands it has, the bytes written
\* to the sink are the line's results in call order joined by single commas
\* and followed by exactly one newline, and the flush callback is invoked once
\* for it; a line without results writes nothing and does not flush.
C14_ResponseFraming ==
  \A p \in Executions :
    /\ \A k \in ReachedLines(p) : LineOutput(p, k) = LineResponse(p, k)
    /\ p.flushes = Cardinality({k \in ReachedLines(p) : LineResults(p, k) > 0})

(***************************************************************************)
(* Claims on the matcher                                                   *)
(***************************************************************************)
\* the prefix of a keyword pattern before its first lowercase letter
RECURSIVE ShortForm(_)
ShortForm(p) ==
  IF p = <<>> \/ Head(p) \in Range(LowerLetters) THEN <<>>
  ELSE <<Head(p)>> \o ShortForm(Tail(p))

\* a and b are equal when the case of letters is ignored
EqualFold(a, b) ==
  /\ Len(a) = Len(b)
  /\ \A i \in DOMAIN a : ToUpperByte(a[i]) = ToUpperByte(b[i])

RECURSIVE Elided(_, _)
Elided(p, depth) ==
  IF p = <<>> THEN <<>>
  ELSE IF Head(p) = "[" THEN Elided(Tail(p), depth + 1)
  ELSE IF Head(p) = "]" THEN Elided(Tail(p), depth - 1)
  ELSE IF depth > 0 THEN Elided(Tail(p), depth)
  ELSE <<Head(p)>> \o Elided(Tail(p), depth)

\* p with its optional subtrees kept and the brackets removed
Kept(p) ==
  SelectSeq(p, LAMBDA b : b \notin {"[", "]"})

\* the segments of a pattern or header: the pieces between ':', without the
\* '?' at the end and the empty piece a leading ':' makes
Segments(s) ==
  LET t == IF s # <<>> /\ Last(s) = "?" THEN SubSeq(s, 1, Len(s) - 1) ELSE s
      parts == Split(t, ":")
  IN  IF parts[1] = <<>> THEN Tail(parts) ELSE parts

\* header h matches pattern p segment by segment
SegmentsMatch(p, h) ==
  /\ Len(Segments(p)) = Len(Segments(h))
  /\ \A i \in DOMAIN Segments(p) :
       \/ EqualFold(Segments(h)[i], ShortForm(Segments(p)[i]))
       \/ EqualFold(Segments(h)[i], Segments(p)[i])

\* C16: for a pattern with one or several optional [...] subtrees,
\* matchCommand accepts a header if and only if the header matches, segment by
\* segment, the pattern with the contents of its brackets elided or the
\* pattern with the brackets removed and their contents kept.
C16_OptionalSubtrees ==
  callRet # <<>> =>
    (callRet[1] <=> \/ SegmentsMatch(Elided(callPattern, 0), callHeader)
                    \/ SegmentsMatch(Kept(callPattern), callHeader))

(***************************************************************************)
(* Claims on the handler's view of its command                             *)
(***************************************************************************)
\* the segments of a pattern with their brackets: a segment with ']' is the
\* end of an optional subtree
PatternSegments(p) ==
  LET parts == Split(IF p # <<>> /\ Last(p) = "?" THEN SubSeq(p, 1, Len(p) - 1) ELSE p, ":")
  IN  IF parts[1] \in {<<>>, <<"[">>} THEN Tail(parts) ELSE parts

\* the number a header segment carries, d for none
SuffixOf(seg, d) ==
  IF trailingDigits(seg) = <<>> THEN d ELSE Atoi(trailingDigits(seg))

\* the numbers of the '#' segments among the pattern segments from the k-th
\* on, where the next header segment is the h-th and present tells whether
\* the header has the optional segments
RECURSIVE SuffixWalk(_, _, _, _, _, _)
SuffixWalk(ps, hs, k, h, present, d) ==
  IF k > Len(ps) THEN <<>>
  ELSE IF Contains(ps[k], "]") /\ ~present
  THEN (IF Contains(ps[k], "#") THEN <<d>> ELSE <<>>)
         \o SuffixWalk(ps, hs, k + 1, h, present, d)
  ELSE (IF Contains(ps[k], "#") THEN <<SuffixOf(hs[h], d)>> ELSE <<>>)
         \o SuffixWalk(ps, hs, k + 1, h + 1, present, d)

\* what CommandNumbers(count, d) is to return for header h dispatched to
\* pattern p
ExpectedNumbers(p, h, count, d) ==
  LET found == SuffixWalk(PatternSegments(p), Segments(h), 1, 1,
                          Len(Segments(h)) = Len(PatternSegments(p)), d)
  IN  [i \in 1..count |-> IF i <= Len(found) THEN found[i] ELSE d]

\* C17: CommandNumbers(count, d) returns exactly count values.  In a handler,
\* for every header that dispatched to the current pattern, the i-th value is
\* the trailing digit run of the header segment that corresponds to the i-th
\* pattern segment with '#', or d when that segment has no digits; the other
\* positions are d, and with no current command all values are d.
C17_CommandNumbers ==
  /\ \A j \in DOMAIN c.calls :
       commands[c.calls[j].cmd].Callback = "numbers"
         => c.calls[j].numbers =
              ExpectedNumbers(commands[c.calls[j].cmd].Pattern, c.calls[j].header,
                              NumbersCount, NumbersDefault)
  /\ callRet # <<>> => Len(callRet[1]) = callHeader[1]
  /\ (callRet # <<>> /\ c.currentCmd = Nil)
       => callRet[1] = [i \in 1..callHeader[1] |-> callHeader[2]]

\* C18: IsCmd(pattern) returns false for every pattern whenever it is called
\* while no handler is running, before any command has been dispatched as well
\* as after Parse or Input has returned from dispatching commands.
C18_IsCmdOutsideHandler ==
  callRet # <<>> => callRet[1] = FALSE

(***************************************************************************)
(* Claims on the parameter cursor                                          *)
(***************************************************************************)
\* the bytes of the parameter span that the cursor has not passed
Remaining ==
  SubSeq(c.currentParams, c.paramsPos + 1, Len(c.currentParams))

\* the first byte of Remaining that is no blank ("" for none)
NextByte ==
  IF isBlank(Remaining) THEN ""
  ELSE Remaining[CHOOSE i \in DOMAIN Remaining :
                   /\ ~isWhitespace(Remaining[i])
                   /\ \A j \in 1..(i - 1) : isWhitespace(Remaining[j])]

\* the step is a call named by calls
IsCallOf(calls) ==
  /\ Len(callRet') = Len(callRet) + 1
  /\ Last(callRet').call \in calls

\* C19: in one handler invocation the first Parameter call needs no comma,
\* and every later call that finds bytes other than blanks left in the span
\* needs the next byte to be ','; if it is not, the call pushes -104, fails
\* and leaves the cursor and inputCount as they were.  inputCount and the
\* cursor are 0 when a handler invocation begins.
C19_CommaBetweenParameters ==
  [][/\ (IsCallOf({"Parameter"}) /\ ~isBlank(Remaining))
          => IF callRet = <<>> \/ NextByte = ","
             THEN /\ ~Last(callRet').err
                  /\ StepPushes = <<>>
                  /\ c'.inputCount = c.inputCount + 1
                  /\ callRet = <<>> => c'.inputCount = 1
             ELSE /\ Last(callRet').err
                  /\ StepPushes = <<-104>>
                  /\ c'.paramsPos = c.paramsPos
                  /\ c'.inputCount = c.inputCount
     /\ c'.lookups # c.lookups => c'.inputCount = 0 /\ c'.paramsPos = 0]_vars

\* in a second handler invocation a parameter was read without a comma and
\* the next Parameter call, finding no comma, pushed -104 and failed
C19_Witness ==
  /\ Len(c.lookups) = 2
  /\ Len(callRet) >= 2
  /\ ~callRet[1].err
  /\ Last(callRet).call = "Parameter"
  /\ Last(callRet).err
  /\ c.inputCount = 1
  /\ c.notified # <<>> /\ Last(c.notified).Code = -104

\* C20: when the rest of the parameter span holds blanks only or nothing,
\* every optional extractor returns its default value with success, pushes no
\* error and leaves the cursor, inputCount and the error queue as they were,
\* and every mandatory extractor pushes exactly one -109 and fails.
C20_ExhaustedSpan ==
  [][(IsCallOf(Extractors) /\ isBlank(Remaining))
       => IF Last(callRet').mandatory
          THEN /\ Last(callRet').err
               /\ StepPushes = <<-109>>
          ELSE /\ ~Last(callRet').err
               /\ Last(callRet').val = defaultOf(Last(callRet').call)
               /\ StepPushes = <<>>
               /\ c'.paramsPos = c.paramsPos
               /\ c'.inputCount = c.inputCount
               /\ c'.errorQueue = c.errorQueue]_vars

\* a mandatory extractor failed with -109 in one handler invocation; in the
\* next one a parameter was read and an optional extractor then returned its
\* default
C20_Witness ==
  /\ Len(c.lookups) = 2
  /\ Codes(c.notified) = <<-109>>
  /\ Len(callRet) = 2
  /\ callRet[1].call = "Parameter" /\ ~callRet[1].err
  /\ c.inputCount = 1
  /\ callRet[2].call = "ParamString" /\ ~callRet[2].mandatory
  /\ callRet[2].val = <<>> /\ ~callRet[2].err

(***************************************************************************)
(* Claims on the conversions                                               *)
(***************************************************************************)
\* the one handler invocation of the line sent, once Parse has run
Handled ==
  /\ Len(c.parses) = 1
  /\ c.parses[1].data = callPattern \o <<" ">> \o callHeader \o <<"\n">>
  /\ Len(c.calls) = 1

\* C21: for every int32 v, ParamInt32 applied to the decimal text of v
\* returns v and no error, both extrema included, and the handler that echoes
\* the value with ResultInt32 writes the same decimal text.
C21_Int32RoundTrip ==
  \A v \in Int32Samples :
    (Handled /\ callPattern = <<"I">> /\ callHeader = IntToDec(v)) =>
      /\ c.calls[1].got = <<[val |-> <<v>>, err |-> FALSE]>>
      /\ c.calls[1].result = ResOK
      /\ c.notified = <<>>
      /\ c.out = callHeader \o <<"\n">>

\* the largest int32 has been sent, read and echoed
C21_Witness ==
  /\ Handled
  /\ callPattern = <<"I">>
  /\ callHeader = <<"2","1","4","7","4","8","3","6","4","7">>
  /\ c.calls[1].got = <<[val |-> <<MaxInt32>>, err |-> FALSE]>>
  /\ c.out = <<"2","1","4","7","4","8","3","6","4","7","\n">>

\* the line sent was handed to Parse whole
ParsedWhole ==
  /\ c.parses # <<>>
  /\ c.parses[1].data = callPattern \o <<" ">> \o callHeader \o <<"\n">>

\* C22: for every byte sequence D, when what ResultArbitraryBlock(D) writes is
\* the parameter of a command on a line parsed by Parse, ParamArbitraryBlock
\* returns D to the handler of that command.
C22_BlockRoundTrip ==
  \A d \in BlockData :
    (ParsedWhole /\ callPattern = <<"K","?">> /\ callHeader = BlockText(d)) =>
      /\ c.calls # <<>>
      /\ c.calls[1].got = <<[val |-> <<d>>, err |-> FALSE]>>

\* s is a program expression (@<inner>) whose inner part holds more than
\* blanks
IsChannelExpression(s) ==
  /\ Len(s) >= 3
  /\ s[1] = "(" /\ s[2] = "@" /\ Last(s) = ")"
  /\ \E i \in 3..(Len(s) - 1) : s[i] \notin {" ", "\t", "\n", "\r"}

\* C23: ParamChannelList succeeds only for a program expression (@<inner>)
\* whose inner part is not empty after trimming; for every other parameter,
\* "(@)" included, it pushes an error and fails.
C23_ChannelListForm ==
  (Handled /\ callPattern = <<"L">> /\ ~IsChannelExpression(callHeader)) =>
    /\ c.calls[1].got[1].err
    /\ c.notified # <<>>

(***************************************************************************)
(* Further claims on the error queue, the command table and progress       *)
(***************************************************************************)
\* C24: ErrorPush never faults: whatever pushes and pops came before, also
\* when they filled the queue and drained it, ErrorPush(e) returns normally
\* and e is then the newest entry of the queue.
C24_ErrorPushNeverFaults ==
  [][pushed' = pushed + 1
       => /\ ~c'.panicked
          /\ c'.errorQueue # <<>>
          /\ Last(c'.errorQueue).Code = pushed']_vars

\* C25: with a pattern P and its query form P? both in the command table, in
\* either order, a header without a final '?' invokes the handler registered
\* for P and a header with one the handler registered for P?.
C25_QueryFormDistinct ==
  (Handled /\ callPattern \in OutputHeaders) =>
    commands[c.calls[1].cmd].Pattern = callPattern

\* the token kinds that the integer extractor converts
NumericKinds ==
  {"TokenHexNum", "TokenOctNum", "TokenBinNum", "TokenDecimalNumeric",
   "TokenDecimalNumericWithSuffix"}

\* C26: a mandatory extractor (here ParamInt32(true)) returns success only if
\* it consumed a parameter token of a kind it accepts; when the parameter span
\* is not empty but begins with no valid program data, it fails and an error
\* is pushed.
C26_MandatoryNeedsToken ==
  (Handled /\ callPattern = <<"I">>) =>
    /\ ~c.calls[1].got[1].err
         => parseProgramData(callHeader, 0).type \in NumericKinds
    /\ (callHeader # <<>> /\ parseProgramData(callHeader, 0).type = "TokenUnknown")
         => (c.calls[1].got[1].err /\ c.notified # <<>>)

\* what the handler of "I" receives from ParamInt32 for the parameter span
Int32Of(span) ==
  Parse(NewContext, <<"I", " ">> \o span \o <<"\n">>).w.calls[1].got

\* C27: for every decimal literal N that the lexer accepts and every
\* alphabetic suffix S, the numeric extractor (here ParamInt32) returns for
\* the parameter "N S" the value it returns for the parameter "N".
C27_SuffixIgnored ==
  \A n \in DecimalLiterals, b \in {<<>>, <<" ">>}, x \in Suffixes :
    (Handled /\ callPattern = <<"I">> /\ callHeader = n \o b \o x) =>
      c.calls[1].got = Int32Of(n)

\* C28: inside a handler, IsCmd(P) is true when P is the Pattern string of
\* the command being executed, whatever the pattern: optional [...] nodes and
\* '#' markers included.
C28_IsCmdOwnPattern ==
  \A i \in DOMAIN c.calls : c.calls[i].own

\* C29: after an input-buffer overflow no byte of the overflowing line is
\* dispatched: the bytes of that line, its "\n" included, invoke no handler,
\* whether they arrive in the Input call that overflowed or in later ones.
C29_OverflowLineDiscarded ==
  \A k \in DOMAIN c.parses :
    c.parses[k].afterOverflow => c.parses[k].calls = <<>>

\* a step is a Parameter call made in the handler
IsParameterStep ==
  /\ Len(callRet') = Len(callRet) + 1
  /\ Last(callRet').call = "Parameter"

\* C30: every Parameter call in a handler returns an error, or the Unknown
\* sentinel, or a token with the parameter cursor strictly advanced and not
\* beyond the end of the parameter span; so the calls that return a token are
\* at most as many as the span has bytes.
C30_ParameterProgress ==
  [][IsParameterStep =>
       /\ \/ Last(callRet').err
          \/ Last(callRet').val = <<>>
          \/ /\ c'.paramsPos > c.paramsPos
             /\ c'.paramsPos <= Len(c.currentParams)
       /\ c'.paramsPos <= Len(c'.currentParams)
       /\ Cardinality({i \in DOMAIN callRet' :
                         /\ callRet'[i].call = "Parameter"
                         /\ ~callRet'[i].err
                         /\ callRet'[i].val # <<>>}) <= Len(c.currentParams)]_vars

\* two Parameter calls in one handler each returned a token: the second one
\* after the comma, with the cursor at the end of the span
C30_Witness ==
  /\ Len(callRet) = 2
  /\ \A i \in 1..2 : /\ callRet[i].call = "Parameter"
                      /\ ~callRet[i].err
                      /\ callRet[i].val # <<>>
  /\ c.currentParams = <<"1"," ","V",",","a">>
  /\ c.paramsPos = Len(c.currentParams)

====
